---- MODULE Spec2Model ----
(***************************************************************************)
(* A model of the numerical-methods workbench: the table function, the     *)
(* expression parser, the three-term conjugate-gradient solver and the     *)
(* Volterra second-kind sweep.  f64 values are modelled as exact rationals *)
(* <<n, d>> (d > 0, lowest terms); <<0, 0>> stands for a non-finite value  *)
(* (the result of a division by zero and everything computed from it).     *)
(***************************************************************************)
EXTENDS Integers, Sequences, FiniteSets, TLC

VARIABLES
    \* --- table function (src/src/common/table_function.rs)
    tf_input,       \* the list handed to TableFunction::from_table
    sorted_table,   \* TableFunction.sorted_table
    tf_eps,         \* TableFunction.eps
    tf_arg,         \* the argument of the last apply (NoArg before the first)
    tf_res,         \* the result of the last apply
    \* --- expression parser (src/src/mathparse)
    p_tokens,       \* the token list handed to parse_expr
    p_runtime,      \* the Runtime, as the set of names has_func accepts
    p_ast,          \* parse_expr's result (NotParsed before the call)
    p_qvars,        \* query_vars of the result (NotQueried before the call)
    p_pc,           \* "start", "parsed", "queried"
    \* --- conjugate gradients (src/src/integral_eq/conjugate_gradients.rs)
    cg_a,           \* a: the matrix, row-major
    cg_inv_b,       \* inv_b: the inverse of the preconditioner, row-major
    cg_f,           \* f: the right-hand side
    cg_n,           \* n
    cg_eps,         \* eps
    cg_max_iter_count,  \* max_iter_count
    cg_x0,          \* x as the caller passed it in
    cg_x,           \* x
    cg_prev_x,      \* prev_x
    cg_prev_tau,    \* prev_tau
    cg_prev_alpha,  \* prev_alpha
    cg_prev_wkrk,   \* prev_wkrk
    cg_iter,        \* the index of the for loop over 0..max_iter_count
    cg_step_count,  \* the number of updates applied to x so far
    cg_pc,          \* "start", "loop", "done"
    \* --- Volterra second kind (src/src/integral_eq/volterra_second_kind.rs)
    vo_impl,        \* which of the two copies of the routine is called
    vo_kernel,      \* kernel
    vo_right_side,  \* right_side
    vo_from,        \* from
    vo_to,          \* to
    vo_lambda,      \* lambda
    vo_count,       \* n, or self.step_count of the older copy
    vo_step,        \* step
    vo_y,           \* y: the pairs (x, y)
    vo_i,           \* the index of the for loop
    vo_result,      \* the value returned
    vo_pc,          \* "start", "sweep", "done"
    \* --- the integral-equation solvers (src/src/integral_eq, src/integral_eq/src)
    ie_solver,      \* the solver called
    ie_kernel,      \* kernel
    ie_right_side,  \* right_side
    ie_from,        \* from
    ie_to,          \* to
    ie_lambda,      \* lambda
    ie_n,           \* the requested point count n
    ie_eps,         \* eps
    ie_max_iter_count, \* max_iter_count
    ie_result,      \* the value returned
    ie_pc,          \* "start", "done"
    \* --- golden_ratio_min (src/src/min_find/golden_ratio_min.rs)
    gr_func,        \* func
    gr_from,        \* from
    gr_to,          \* to
    gr_min_width,   \* min_width
    gr_max_iter_count, \* max_iter_count
    gr_a,           \* a
    gr_b,           \* b
    gr_f_a,         \* f_a
    gr_f_b,         \* f_b
    gr_iter,        \* the index of the for loop
    gr_result,      \* the value returned
    gr_pc,          \* "start", "loop", "done"
    \* --- gradients_min (src/min_find/src/gradients_min.rs)
    gm_f,           \* f: the objective
    gm_grad,        \* grad: the gradient components
    gm_x0,          \* x0
    gm_eps,         \* eps
    gm_max_iter_count, \* max_iter_count
    gm_x,           \* x
    gm_h,           \* h
    gm_x_plus_alpha_h, \* x_plus_alpha_h, the buffer AlphaFunc writes
    gm_alpha_res,   \* what the latest line search returned
    gm_step,        \* step
    gm_iter,        \* passes of the outer loop done
    gm_result,      \* the value returned
    gm_pc,          \* position in the routine
    \* --- penalty_min (src/src/min_find/penalty_min.rs)
    pm_f,           \* f: the objective
    pm_constraints, \* constraints
    pm_from,        \* from
    pm_to,          \* to
    pm_start_eps,   \* start_eps
    pm_min_step,    \* min_step
    pm_max_iter_count, \* max_iter_count
    pm_eps,         \* eps
    pm_prev_min,    \* prev_min
    pm_prev_prev_min, \* prev_prev_min
    pm_iter,        \* auxiliary minimisations made
    pm_result,      \* the value returned
    pm_pc,          \* position in the routine
    \* --- integrate_step (src/src/area_calc/simpson_integrator.rs)
    si_f,           \* f: the integrand
    si_from,        \* from
    si_to,          \* to
    si_n,           \* *n, the caller's panel count
    si_cached_pts,  \* *cached_pts, the caller's cache
    si_evals,       \* the arguments f.apply was called with, in order
    si_calls,       \* calls of integrate_step made
    si_result,      \* what the latest call returned
    \* --- calc_area (src/src/area_calc/mod.rs)
    ca_curves,      \* a, b and c
    ca_brackets,    \* ab_root, ac_root and bc_root
    ca_root_start_eps, \* root_start_eps
    ca_area_eps,    \* area_eps
    ca_max_iter_count, \* max_iter_count
    ca_root_eps,    \* root_eps
    ca_iter,        \* passes of the loop that ended in a restart
    ca_sides,       \* sides, sorted
    ca_res,         \* res, the latest area estimate
    ca_result,      \* the value returned
    ca_pc,          \* position in the routine
    \* --- Spline (src/src/spline/mod.rs)
    sp_pc,          \* "new", "built", "applied" or "panicked"; "idle" elsewhere
    sp_known,       \* the known_points handed to Spline::new
    sp_pts,         \* Spline.pts
    sp_coefs,       \* Spline.coefs
    sp_arg,         \* the argument of the last apply
    sp_result,      \* what the last apply returned
    \* --- root (src/src/area_calc/secant_method_root.rs)
    rt_f,           \* the curve f
    rt_g,           \* the curve g
    rt_from,        \* from
    rt_to,          \* to
    rt_eps,         \* eps
    rt_max_iter_count, \* max_iter_count
    rt_a,           \* a
    rt_b,           \* b
    rt_f_a,         \* f_a
    rt_f_b,         \* f_b
    rt_iter,        \* passes of the loop begun so far
    rt_result,      \* what root returned
    rt_pc,          \* "start", "loop" or "done"; "idle" elsewhere
    \* --- tokenize (src/src/mathparse/parse.rs)
    tk_input,       \* the string handed to tokenize, one character per element
    tk_src,         \* src, what is left to read
    tk_res,         \* res, the tokens read so far
    tk_result,      \* NoResult, Some(res) or None
    tk_pc,          \* "loop", "done" or "panicked"; "idle" elsewhere
    \* --- FunctionNd::sample (src/src/common/function.rs)
    sm_f,           \* self, the function sampled
    sm_from,        \* from
    sm_to,          \* to
    sm_n,           \* n, the number of grid nodes along each coordinate
    sm_iter,        \* iter, the grid index vector
    sm_done,        \* how many passes of the outer loop are over
    sm_pts,         \* pts, the rows emitted so far
    sm_result,      \* NoResult, Ok(pts) or the error of the function
    sm_pc,          \* "loop" or "done"; "idle" elsewhere
    \* --- GradientsMinProblemCreator (src/src/problems/gradients_min.rs)
    gc_field_names, \* form.field_names, the fields in the order they were added
    gc_fields,      \* form.fields, the contents of each field
    gc_ordered_vars, \* ordered_vars
    gc_edits,       \* how many set_field calls were made
    gc_result,      \* NoResult, Ok(problem) or Err(errors) of try_create
    gc_pc,          \* "form" or "tried"; "idle" elsewhere
    \* --- App::update over AppState (src/src/bin/iced_app.rs, src/src/app.rs)
    ap_fields,      \* the field contents of every problem creator, by index
    ap_cur_problem_creator, \* cur_problem_creator
    ap_prepared_problem, \* prepared_problem
    ap_validation_errors, \* validation_errors
    ap_solutions,   \* solutions
    ap_handled,     \* how many messages update has handled
    ap_message,     \* the message update handled last
    ap_pc           \* "running" or "panicked"; "idle" elsewhere

tfVars == <<tf_input, sorted_table, tf_eps, tf_arg, tf_res>>
parseVars == <<p_tokens, p_runtime, p_ast, p_qvars, p_pc>>
cgVars ==
    <<cg_a, cg_inv_b, cg_f, cg_n, cg_eps, cg_max_iter_count, cg_x0, cg_x,
      cg_prev_x, cg_prev_tau, cg_prev_alpha, cg_prev_wkrk, cg_iter,
      cg_step_count, cg_pc>>
voVars ==
    <<vo_impl, vo_kernel, vo_right_side, vo_from, vo_to, vo_lambda, vo_count,
      vo_step, vo_y, vo_i, vo_result, vo_pc>>
ieVars ==
    <<ie_solver, ie_kernel, ie_right_side, ie_from, ie_to,
      ie_lambda, ie_n, ie_eps, ie_max_iter_count, ie_result, ie_pc>>
grVars ==
    <<gr_func, gr_from, gr_to, gr_min_width, gr_max_iter_count,
      gr_a, gr_b, gr_f_a, gr_f_b, gr_iter, gr_result, gr_pc>>
gmVars ==
    <<gm_f, gm_grad, gm_x0, gm_eps, gm_max_iter_count, gm_x, gm_h,
      gm_x_plus_alpha_h, gm_alpha_res, gm_step, gm_iter, gm_result, gm_pc>>
pmVars ==
    <<pm_f, pm_constraints, pm_from, pm_to, pm_start_eps,
      pm_min_step, pm_max_iter_count, pm_eps, pm_prev_min, pm_prev_prev_min,
      pm_iter, pm_result, pm_pc>>
siVars ==
    <<si_f, si_from, si_to, si_n, si_cached_pts, si_evals,
      si_calls, si_result>>
caVars ==
    <<ca_curves, ca_brackets, ca_root_start_eps, ca_area_eps,
      ca_max_iter_count, ca_root_eps, ca_iter, ca_sides, ca_res, ca_result,
      ca_pc>>
varsSpline ==
    <<sp_pc, sp_known, sp_pts, sp_coefs, sp_arg, sp_result>>
varsRoot ==
    <<rt_f, rt_g, rt_from, rt_to, rt_eps, rt_max_iter_count,
      rt_a, rt_b, rt_f_a, rt_f_b, rt_iter, rt_result, rt_pc>>
varsTokenize ==
    <<tk_input, tk_src, tk_res, tk_result, tk_pc>>
varsSample ==
    <<sm_f, sm_from, sm_to, sm_n, sm_iter, sm_done, sm_pts,
      sm_result, sm_pc>>
varsCreator ==
    <<gc_field_names, gc_fields, gc_ordered_vars, gc_edits,
      gc_result, gc_pc>>
varsApp ==
    <<ap_fields, ap_cur_problem_creator, ap_prepared_problem,
      ap_validation_errors, ap_solutions, ap_handled, ap_message, ap_pc>>
vars ==
    <<tfVars, parseVars, cgVars, voVars, ieVars, grVars, gmVars,
      pmVars, siVars, caVars, varsSpline, varsRoot, varsTokenize, varsSample,
      varsCreator, varsApp>>

\* what the steps of one component leave alone
exceptTable ==
    <<parseVars, cgVars, voVars, ieVars, grVars, gmVars,
      pmVars, siVars, caVars, varsSpline, varsRoot, varsTokenize, varsSample,
      varsCreator, varsApp>>
exceptParse ==
    <<tfVars, cgVars, voVars, ieVars, grVars, gmVars, pmVars,
      siVars, caVars, varsSpline, varsRoot, varsTokenize, varsSample,
      varsCreator, varsApp>>
exceptCG ==
    <<tfVars, parseVars, voVars, ieVars, grVars, gmVars, pmVars,
      siVars, caVars, varsSpline, varsRoot, varsTokenize, varsSample,
      varsCreator, varsApp>>
exceptVolterra ==
    <<tfVars, parseVars, cgVars, ieVars, grVars, gmVars,
      pmVars, siVars, caVars, varsSpline, varsRoot, varsTokenize, varsSample,
      varsCreator, varsApp>>
exceptIntegralEq ==
    <<tfVars, parseVars, cgVars, voVars, grVars, gmVars,
      pmVars, siVars, caVars, varsSpline, varsRoot, varsTokenize, varsSample,
      varsCreator, varsApp>>
exceptGolden ==
    <<tfVars, parseVars, cgVars, voVars, ieVars, gmVars,
      pmVars, siVars, caVars, varsSpline, varsRoot, varsTokenize, varsSample,
      varsCreator, varsApp>>
exceptGradients ==
    <<tfVars, parseVars, cgVars, voVars, ieVars, grVars,
      pmVars, siVars, caVars, varsSpline, varsRoot, varsTokenize, varsSample,
      varsCreator, varsApp>>
exceptPenalty ==
    <<tfVars, parseVars, cgVars, voVars, ieVars, grVars,
      gmVars, siVars, caVars, varsSpline, varsRoot, varsTokenize, varsSample,
      varsCreator, varsApp>>
exceptSimpson ==
    <<tfVars, parseVars, cgVars, voVars, ieVars, grVars,
      gmVars, pmVars, caVars, varsSpline, varsRoot, varsTokenize, varsSample,
      varsCreator, varsApp>>
exceptArea ==
    <<tfVars, parseVars, cgVars, voVars, ieVars, grVars,
      gmVars, pmVars, siVars, varsSpline, varsRoot, varsTokenize, varsSample,
      varsCreator, varsApp>>
exceptSpline ==
    <<tfVars, parseVars, cgVars, voVars, ieVars, grVars,
      gmVars, pmVars, siVars, caVars, varsRoot, varsTokenize, varsSample,
      varsCreator, varsApp>>
exceptRoot ==
    <<tfVars, parseVars, cgVars, voVars, ieVars, grVars,
      gmVars, pmVars, siVars, caVars, varsSpline, varsTokenize, varsSample,
      varsCreator, varsApp>>
exceptTokenize ==
    <<tfVars, parseVars, cgVars, voVars, ieVars, grVars,
      gmVars, pmVars, siVars, caVars, varsSpline, varsRoot, varsSample,
      varsCreator, varsApp>>
exceptSample ==
    <<tfVars, parseVars, cgVars, voVars, ieVars, grVars,
      gmVars, pmVars, siVars, caVars, varsSpline, varsRoot, varsTokenize,
      varsCreator, varsApp>>
exceptCreator ==
    <<tfVars, parseVars, cgVars, voVars, ieVars, grVars,
      gmVars, pmVars, siVars, caVars, varsSpline, varsRoot, varsTokenize,
      varsSample, varsApp>>
exceptApp ==
    <<tfVars, parseVars, cgVars, voVars, ieVars, grVars, gmVars,
      pmVars, siVars, caVars, varsSpline, varsRoot, varsTokenize, varsSample,
      varsCreator>>

(***************************************************************************)
(* Bounds of the model.                                                    *)
(***************************************************************************)
MaxPts == 3          \* longest point list handed to from_table
MaxTokens == 4       \* longest token list drawn from the whole alphabet
MaxOps == 3          \* most operators in a bracket-free arithmetic input
MaxLead == 2         \* longest run of tokens put before a trailing factor
MaxIter == 2         \* largest max_iter_count handed to the solver
MaxN == 3            \* largest n (or step_count) handed to the Volterra sweep
MaxGridN == 3        \* largest point count asked of an integral-equation solver
MaxGoldenIter == 3   \* largest max_iter_count handed to golden_ratio_min
MaxGradIter == 2     \* largest max_iter_count handed to gradients_min
MaxPenaltyIter == 3  \* largest max_iter_count handed to penalty_min
MaxSimpsonCalls == 3 \* most successive calls of integrate_step on one cache
MaxAreaIter == 2     \* largest max_iter_count handed to calc_area
MaxSplinePts == 3    \* most known points handed to Spline::new
MaxRootIter == 3     \* largest max_iter_count handed to root
MaxSrcLen == 3       \* most characters of a string handed to tokenize
MaxSampleN == 3     \* most grid nodes along one coordinate handed to sample
MaxEdits == 2       \* most set_field calls before try_create
MaxMessages == 5    \* most messages handed to App::update

(***************************************************************************)
(* f64 arithmetic, exact.                                                  *)
(***************************************************************************)
RECURSIVE Gcd(_, _)
Gcd(a, b) == IF b = 0 THEN a ELSE Gcd(b, a % b)

IAbs(a) == IF a < 0 THEN -a ELSE a

NaN == <<0, 0>>

IsNaN(a) == a[2] = 0

Norm(n, d) ==
    IF d = 0 THEN NaN
    ELSE LET g == Gcd(IAbs(n), IAbs(d))
             s == IF d < 0 THEN -1 ELSE 1
         IN  <<s * (n \div g), s * (d \div g)>>

R(n) == <<n, 1>>

Q(n, d) == Norm(n, d)

RAdd(a, b) ==
    IF IsNaN(a) \/ IsNaN(b) THEN NaN
    ELSE LET g == Gcd(a[2], b[2])
         IN  Norm(a[1] * (b[2] \div g) + b[1] * (a[2] \div g),
                  (a[2] \div g) * b[2])

RNeg(a) == <<-a[1], a[2]>>

RSub(a, b) == RAdd(a, RNeg(b))

RMul(a, b) ==
    IF IsNaN(a) \/ IsNaN(b) THEN NaN
    ELSE LET g == Gcd(IAbs(a[1]), b[2])
             h == Gcd(IAbs(b[1]), a[2])
         IN  Norm((a[1] \div g) * (b[1] \div h), (a[2] \div h) * (b[2] \div g))

RDiv(a, b) ==
    IF IsNaN(a) \/ IsNaN(b) \/ b[1] = 0 THEN NaN
    ELSE RMul(a, IF b[1] < 0 THEN <<-b[2], -b[1]>> ELSE <<b[2], b[1]>>)

\* comparisons are false as soon as one side is not finite, as for f64
RLt(a, b) ==
    /\ ~IsNaN(a)
    /\ ~IsNaN(b)
    /\ LET g == Gcd(a[2], b[2])
       IN  a[1] * (b[2] \div g) < b[1] * (a[2] \div g)

RLe(a, b) ==
    /\ ~IsNaN(a)
    /\ ~IsNaN(b)
    /\ LET g == Gcd(a[2], b[2])
       IN  a[1] * (b[2] \div g) <= b[1] * (a[2] \div g)

RGe(a, b) == RLe(b, a)

RAbs(a) == <<IAbs(a[1]), a[2]>>

RMin(a, b) == IF RLt(b, a) THEN b ELSE a

(***************************************************************************)
(* TableFunction                                                           *)
(***************************************************************************)
\* Vec::sort_by on x: a stable sort, modelled as a stable insertion sort.
RECURSIVE InsertByX(_, _)
InsertByX(s, p) ==
    IF s = <<>> THEN <<p>>
    ELSE IF RLt(p[1], s[Len(s)][1])
         THEN Append(InsertByX(SubSeq(s, 1, Len(s) - 1), p), s[Len(s)])
         ELSE Append(s, p)

RECURSIVE SortByX(_)
SortByX(table) ==
    IF table = <<>> THEN <<>>
    ELSE InsertByX(SortByX(SubSeq(table, 1, Len(table) - 1)), table[Len(table)])

\* the scan/reduce of from_table: the least consecutive difference of the
\* first k samples (k >= 2)
RECURSIVE MinGap(_, _)
MinGap(s, k) ==
    LET diff == RSub(s[k][1], s[k - 1][1])
    IN  IF k = 2 THEN diff ELSE RMin(MinGap(s, k - 1), diff)

from_table_eps(s) ==
    IF Len(s) < 2 THEN R(0) ELSE RDiv(MinGap(s, Len(s)), R(Len(s)))

from_table(table) ==
    LET s == SortByX(table)
    IN  [sorted_table |-> s, eps |-> from_table_eps(s)]

larp(min_x, max_x, x, from_y, to_y) ==
    LET t == RDiv(RSub(x, min_x), RSub(max_x, min_x))
    IN  RAdd(RMul(from_y, RSub(R(1), t)), RMul(to_y, t))

Ok(v) == <<"Ok", v>>

TableEmpty == <<"TableEmpty">>

PointOutOfBounds(x, min, max) == <<"PointOutOfBounds", x, min, max>>

\* the intervals of the loop of apply that contain arg
Containing(st, arg) ==
    {i \in 2..Len(st) : RLe(st[i - 1][1], arg) /\ RGe(st[i][1], arg)}

SetMin(S) == CHOOSE m \in S : \A k \in S : m <= k

\* apply with the endpoint tolerance tests made non-strict
apply_closed(st, e, arg) ==
    IF st = <<>> THEN TableEmpty
    ELSE IF Containing(st, arg) # {}
    THEN LET i == SetMin(Containing(st, arg))
         IN  Ok(larp(st[i - 1][1], st[i][1], arg, st[i - 1][2], st[i][2]))
    ELSE IF RLe(RAbs(RSub(arg, st[1][1])), e) THEN Ok(st[1][2])
    ELSE IF RLe(RAbs(RSub(arg, st[Len(st)][1])), e) THEN Ok(st[Len(st)][2])
    ELSE PointOutOfBounds(arg, st[1][1], st[Len(st)][1])

apply(st, e, arg) ==
    IF st = <<>> THEN TableEmpty
    ELSE IF Containing(st, arg) # {}
    THEN LET i == SetMin(Containing(st, arg))
         IN  Ok(larp(st[i - 1][1], st[i][1], arg, st[i - 1][2], st[i][2]))
    ELSE IF RLt(RAbs(RSub(arg, st[1][1])), e) THEN Ok(st[1][2])
    ELSE IF RLt(RAbs(RSub(arg, st[Len(st)][1])), e) THEN Ok(st[Len(st)][2])
    ELSE PointOutOfBounds(arg, st[1][1], st[Len(st)][1])

\* the parser's variables while another component is under study
ParseIdle ==
    /\ p_tokens = <<>>
    /\ p_runtime = {}
    /\ p_ast = <<"NotParsed">>
    /\ p_qvars = <<"NotQueried">>
    /\ p_pc = "idle"

\* the solver's variables while another component is under study
CGIdle ==
    /\ cg_a = <<>>
    /\ cg_inv_b = <<>>
    /\ cg_f = <<>>
    /\ cg_n = 0
    /\ cg_eps = R(0)
    /\ cg_max_iter_count = 0
    /\ cg_x0 = <<>>
    /\ cg_x = <<>>
    /\ cg_prev_x = <<>>
    /\ cg_prev_tau = R(0)
    /\ cg_prev_alpha = R(0)
    /\ cg_prev_wkrk = R(0)
    /\ cg_iter = 0
    /\ cg_step_count = 0
    /\ cg_pc = "idle"

\* the Volterra sweep's variables while another component is under study
VolterraIdle ==
    /\ vo_impl = ""
    /\ vo_kernel = ""
    /\ vo_right_side = ""
    /\ vo_from = R(0)
    /\ vo_to = R(0)
    /\ vo_lambda = R(0)
    /\ vo_count = 0
    /\ vo_step = R(0)
    /\ vo_y = <<>>
    /\ vo_i = 0
    /\ vo_result = <<"NoResult">>
    /\ vo_pc = "idle"

\* the variables of the integral-equation solvers (src/src/integral_eq, src/integral_eq/src) while another component is under study
IntegralEqIdle ==
    /\ ie_solver = ""
    /\ ie_kernel = ""
    /\ ie_right_side = ""
    /\ ie_from = R(0)
    /\ ie_to = R(0)
    /\ ie_lambda = R(0)
    /\ ie_n = 0
    /\ ie_eps = R(0)
    /\ ie_max_iter_count = 0
    /\ ie_result = <<"NoResult">>
    /\ ie_pc = "idle"

\* the variables of golden_ratio_min (src/src/min_find/golden_ratio_min.rs) while another component is under study
GoldenIdle ==
    /\ gr_func = <<"none">>
    /\ gr_from = R(0)
    /\ gr_to = R(0)
    /\ gr_min_width = R(0)
    /\ gr_max_iter_count = 0
    /\ gr_a = R(0)
    /\ gr_b = R(0)
    /\ gr_f_a = R(0)
    /\ gr_f_b = R(0)
    /\ gr_iter = 0
    /\ gr_result = <<"NoResult">>
    /\ gr_pc = "idle"

\* the variables of gradients_min (src/min_find/src/gradients_min.rs) while another component is under study
GradientsIdle ==
    /\ gm_f = <<"none">>
    /\ gm_grad = <<>>
    /\ gm_x0 = <<>>
    /\ gm_eps = <<0, 1>>
    /\ gm_max_iter_count = 0
    /\ gm_x = <<>>
    /\ gm_h = <<>>
    /\ gm_x_plus_alpha_h = <<>>
    /\ gm_alpha_res = <<"NoResult">>
    /\ gm_step = <<0, 1>>
    /\ gm_iter = 0
    /\ gm_result = <<"NoResult">>
    /\ gm_pc = "idle"

\* the variables of penalty_min (src/src/min_find/penalty_min.rs) while another component is under study
PenaltyIdle ==
    /\ pm_f = <<"none">>
    /\ pm_constraints = <<>>
    /\ pm_from = <<0, 1>>
    /\ pm_to = <<0, 1>>
    /\ pm_start_eps = <<1, 1>>
    /\ pm_min_step = <<1, 1>>
    /\ pm_max_iter_count = 0
    /\ pm_eps = <<1, 1>>
    /\ pm_prev_min = <<0, 1>>
    /\ pm_prev_prev_min = <<0, 1>>
    /\ pm_iter = 0
    /\ pm_result = <<"NoResult">>
    /\ pm_pc = "idle"

\* the variables of integrate_step (src/src/area_calc/simpson_integrator.rs) while another component is under study
SimpsonIdle ==
    /\ si_f = <<"none">>
    /\ si_from = <<0, 1>>
    /\ si_to = <<0, 1>>
    /\ si_n = 0
    /\ si_cached_pts = <<>>
    /\ si_evals = <<>>
    /\ si_calls = 0
    /\ si_result = <<"NoResult">>

\* the variables of calc_area (src/src/area_calc/mod.rs) while another component is under study
AreaIdle ==
    /\ ca_curves = <<>>
    /\ ca_brackets = <<>>
    /\ ca_root_start_eps = <<1, 1>>
    /\ ca_area_eps = <<1, 1>>
    /\ ca_max_iter_count = 0
    /\ ca_root_eps = <<1, 1>>
    /\ ca_iter = 0
    /\ ca_sides = <<>>
    /\ ca_res = <<"NoResult">>
    /\ ca_result = <<"NoResult">>
    /\ ca_pc = "idle"

\* the variables of Spline (src/src/spline/mod.rs) while another component is under study
SplineIdle ==
    /\ sp_pc = "idle"
    /\ sp_known = <<>>
    /\ sp_pts = <<>>
    /\ sp_coefs = <<>>
    /\ sp_arg = <<0, 0>>
    /\ sp_result = <<"NoResult">>

\* the variables of root (src/src/area_calc/secant_method_root.rs) while another component is under study
RootIdle ==
    /\ rt_f = <<"none">>
    /\ rt_g = <<"none">>
    /\ rt_from = <<0, 1>>
    /\ rt_to = <<0, 1>>
    /\ rt_eps = <<1, 1>>
    /\ rt_max_iter_count = 0
    /\ rt_a = <<0, 1>>
    /\ rt_b = <<0, 1>>
    /\ rt_f_a = <<0, 1>>
    /\ rt_f_b = <<0, 1>>
    /\ rt_iter = 0
    /\ rt_result = <<"NoResult">>
    /\ rt_pc = "idle"

\* the variables of tokenize (src/src/mathparse/parse.rs) while another component is under study
TokenizeIdle ==
    /\ tk_input = <<>>
    /\ tk_src = <<>>
    /\ tk_res = <<>>
    /\ tk_result = <<"NoResult">>
    /\ tk_pc = "idle"

\* the variables of FunctionNd::sample (src/src/common/function.rs) while another component is under study
SampleIdle ==
    /\ sm_f = <<"none">>
    /\ sm_from = <<>>
    /\ sm_to = <<>>
    /\ sm_n = <<>>
    /\ sm_iter = <<>>
    /\ sm_done = 0
    /\ sm_pts = <<>>
    /\ sm_result = <<"NoResult">>
    /\ sm_pc = "idle"

\* the variables of GradientsMinProblemCreator (src/src/problems/gradients_min.rs) while another component is under study
CreatorIdle ==
    /\ gc_field_names = <<>>
    /\ gc_fields = <<>>
    /\ gc_ordered_vars = <<>>
    /\ gc_edits = 0
    /\ gc_result = <<"NoResult">>
    /\ gc_pc = "idle"

\* the variables of App::update over AppState (src/src/bin/iced_app.rs, src/src/app.rs) while another component is under study
AppIdle ==
    /\ ap_fields = <<>>
    /\ ap_cur_problem_creator = 0
    /\ ap_prepared_problem = <<"None">>
    /\ ap_validation_errors = <<>>
    /\ ap_solutions = <<>>
    /\ ap_handled = 0
    /\ ap_message = "idle"
    /\ ap_pc = "idle"

IdleExceptTable ==
    ParseIdle /\ CGIdle /\ VolterraIdle /\ IntegralEqIdle /\
      GoldenIdle /\ GradientsIdle /\ PenaltyIdle /\ SimpsonIdle /\ AreaIdle /\
      SplineIdle /\ RootIdle /\ TokenizeIdle /\ SampleIdle /\ CreatorIdle /\
      AppIdle

\* inputs
TableXs == {R(0), R(1), R(2), R(4)}
TableYs == {R(1), R(3)}
TablePoints == TableXs \X TableYs
PointLists == UNION {[1..n -> TablePoints] : n \in 0..MaxPts}
Queries == {Q(k, 2) : k \in -5..13}
NoArg == <<"NoArg">>
NoRes == <<"NoRes">>

\* TableFunction::from_table(table): the table is built once and then
\* only read
InitTable ==
    \E table \in PointLists :
        /\ tf_input = table
        /\ sorted_table = from_table(table).sorted_table
        /\ tf_eps = from_table(table).eps
        /\ tf_arg = NoArg
        /\ tf_res = NoRes
        /\ IdleExceptTable

\* <TableFunction as Function>::apply(&self, arg)
Apply ==
    \E arg \in Queries :
        /\ tf_arg' = arg
        /\ tf_res' = apply(sorted_table, tf_eps, arg)
        /\ UNCHANGED <<tf_input, sorted_table, tf_eps>>
        /\ UNCHANGED exceptTable

NextTable == Apply

SpecTable == InitTable /\ [][NextTable]_vars

(***************************************************************************)
(* Claims about the table function.                                        *)
(***************************************************************************)
Applied == tf_arg # NoArg

LastX == sorted_table[Len(sorted_table)][1]

\* C1: for a table built from a point list P, apply(x) returns Ok(y)
\* exactly for every (x, y) of P, single-point tables included.
C1_SamplesReturned ==
    Applied =>
        \A i \in 1..Len(tf_input) :
            tf_input[i][1] = tf_arg => tf_res = Ok(tf_input[i][2])

StrictlyAscending(s) == \A i \in 2..Len(s) : RLt(s[i - 1][1], s[i][1])

\* the least consecutive x-gap of s, stated over the set of gaps
LeastGap(s) ==
    CHOOSE g \in {RSub(s[i][1], s[i - 1][1]) : i \in 2..Len(s)} :
        \A i \in 2..Len(s) : RLe(g, RSub(s[i][1], s[i - 1][1]))

\* C2: after from_table on any list the samples are strictly ascending in x
\* and eps is the least consecutive x-gap divided by the sample count (0 for
\* an empty or one-point table).
C2_StrictlySortedWithEps ==
    /\ StrictlyAscending(sorted_table)
    /\ Len(sorted_table) = Len(tf_input)
    /\ tf_eps = IF Len(sorted_table) < 2 THEN R(0)
             ELSE RDiv(LeastGap(sorted_table), R(Len(sorted_table)))

\* C3: with at least two samples, a query outside [x_min, x_max] but closer
\* than eps to an endpoint returns that endpoint's y, a query outside by eps
\* or more returns PointOutOfBounds{x, x_min, x_max}; an empty table returns
\* TableEmpty; apply leaves the table as from_table built it.
C3_BoundaryLookup ==
    Applied =>
        /\ sorted_table = <<>> => tf_res = TableEmpty
        /\ Len(sorted_table) >= 2 =>
            LET xmin == sorted_table[1][1]
                xmax == LastX
                below == RLt(tf_arg, xmin)
                above == RLt(xmax, tf_arg)
            IN  /\ (below /\ RLt(RSub(xmin, tf_arg), tf_eps))
                       => tf_res = Ok(sorted_table[1][2])
                /\ (above /\ RLt(RSub(tf_arg, xmax), tf_eps))
                       => tf_res = Ok(sorted_table[Len(sorted_table)][2])
                /\ (below /\ RGe(RSub(xmin, tf_arg), tf_eps))
                       => tf_res = PointOutOfBounds(tf_arg, xmin, xmax)
                /\ (above /\ RGe(RSub(tf_arg, xmax), tf_eps))
                       => tf_res = PointOutOfBounds(tf_arg, xmin, xmax)
        /\ sorted_table = SortByX(tf_input)
        /\ tf_eps = from_table_eps(sorted_table)

\* a query strictly left of a two-or-more-point table, closer than eps to
\* x_min, answered with the first sample's y
C3_Witness ==
    /\ Applied
    /\ Len(sorted_table) >= 2
    /\ RLt(tf_arg, sorted_table[1][1])
    /\ RLt(RSub(sorted_table[1][1], tf_arg), tf_eps)
    /\ tf_res = Ok(sorted_table[1][2])

(***************************************************************************)
(* The expression parser (src/src/mathparse).  A token is a tuple whose    *)
(* first component is its kind; an expression is a tuple whose first       *)
(* component is its variant; None is Option::None.                         *)
(***************************************************************************)
Num(v) == <<"Num", v>>
Identifier(name) == <<"Identifier", name>>
Plus == <<"Plus">>
Minus == <<"Minus">>
Multiply == <<"Multiply">>
Divide == <<"Divide">>
OpenBracket == <<"OpenBracket">>
CloseBracket == <<"CloseBracket">>
Coma == <<"Coma">>

None == <<"None">>

ENum(v) == <<"f64", v>>
Variable(name) == <<"Variable", name>>
BasicOp(op, l, r) == <<op, l, r>>
Negate(e) == <<"Negate", e>>
FunctionExpression(args, name) == <<"FunctionExpression", args, name>>

\* DefaultRuntime::has_func; a runtime is modelled by its set of functions
DefaultRuntime == {"sin", "cos", "pow", "exp", "sqrt", "ln", "abs"}

has_func(runtime, name) == name \in runtime

IsNum(t) == t[1] = "Num"

IsIdentifier(t) == t[1] = "Identifier"

Prefix(tokens, n) == SubSeq(tokens, 1, n)

Suffix(tokens, i) == SubSeq(tokens, i, Len(tokens))

\* the reverse scan of parse_implicit_multiplication: looking at tokens[i]
\* with s closing brackets open; the index of the first OpenBracket emitted
\* at level 0, or 0 when there is none (indices are 1-based here)
\* the scan taking the leftmost OpenBracket, whatever it encloses
corresponding_open_bracket_leftmost(tokens, i, s) ==
    LET at == {k \in 1..i : tokens[k] = OpenBracket}
    IN  IF at = {} THEN 0 ELSE CHOOSE k \in at : \A j \in at : k <= j

RECURSIVE corresponding_open_bracket(_, _, _)
corresponding_open_bracket(tokens, i, s) ==
    IF i < 1 THEN 0
    ELSE IF tokens[i] = CloseBracket
         THEN corresponding_open_bracket(tokens, i - 1, s + 1)
    ELSE IF tokens[i] = OpenBracket
         THEN IF s - 1 = 0 THEN i
              ELSE corresponding_open_bracket(tokens, i - 1, s - 1)
    ELSE corresponding_open_bracket(tokens, i - 1, s)

\* the scan of parse_arglist: the bracket level after tokens[1..i]
RECURSIVE bracket_level(_, _)
bracket_level(tokens, i) ==
    IF i = 0 THEN 0
    ELSE bracket_level(tokens, i - 1)
         + (IF tokens[i] = OpenBracket THEN 1
            ELSE IF tokens[i] = CloseBracket THEN -1 ELSE 0)

RECURSIVE parse_expr(_, _)
RECURSIVE parse_term(_, _)
RECURSIVE parse_factor(_, _)
RECURSIVE parse_implicit_multiplication(_, _)
RECURSIVE parse_arglist_from(_, _, _, _)
RECURSIVE parse_arglist(_, _)
RECURSIVE expr_find_map(_, _, _, _)
RECURSIVE expr_find_map_first(_, _, _, _)
RECURSIVE term_find_map(_, _, _, _)

OpName(op) == "BasicOp::" \o op[1]

\* the find_map that gives up at the first position holding op
expr_find_map_first(tokens, runtime, op, from) ==
    IF from > Len(tokens) THEN None
    ELSE IF tokens[from] # op
         THEN expr_find_map_first(tokens, runtime, op, from + 1)
    ELSE LET l == parse_expr(Prefix(tokens, from - 1), runtime)
             r == parse_term(Suffix(tokens, from + 1), runtime)
         IN  IF l = None \/ r = None THEN None
             ELSE BasicOp(OpName(op), l, r)

\* parse_expr's inner find_map for one operator: the first position i >= from
\* holding op at which both sides parse
expr_find_map(tokens, runtime, op, from) ==
    IF from > Len(tokens) THEN None
    ELSE IF tokens[from] # op THEN expr_find_map(tokens, runtime, op, from + 1)
    ELSE LET l == parse_expr(Prefix(tokens, from - 1), runtime)
             r == parse_term(Suffix(tokens, from + 1), runtime)
         IN  IF l = None THEN expr_find_map(tokens, runtime, op, from + 1)
             ELSE IF r = None THEN expr_find_map(tokens, runtime, op, from + 1)
             ELSE BasicOp(OpName(op), l, r)

parse_expr(tokens, runtime) ==
    LET plus == expr_find_map(tokens, runtime, Plus, 1)
    IN  IF plus # None THEN plus
        ELSE LET minus == expr_find_map(tokens, runtime, Minus, 1)
             IN  IF minus # None THEN minus
                 ELSE parse_term(tokens, runtime)

term_find_map(tokens, runtime, op, from) ==
    IF from > Len(tokens) THEN None
    ELSE IF tokens[from] # op THEN term_find_map(tokens, runtime, op, from + 1)
    ELSE LET l == parse_term(Prefix(tokens, from - 1), runtime)
             r == parse_factor(Suffix(tokens, from + 1), runtime)
         IN  IF l = None THEN term_find_map(tokens, runtime, op, from + 1)
             ELSE IF r = None THEN term_find_map(tokens, runtime, op, from + 1)
             ELSE BasicOp(OpName(op), l, r)

\* the second alternative of parse_term: a leading unary minus
parse_negate(tokens, runtime) ==
    IF Len(tokens) > 1 /\ tokens[1] = Minus
    THEN LET inner == parse_term(Suffix(tokens, 2), runtime)
         IN  IF inner = None THEN None ELSE Negate(inner)
    ELSE None

parse_term(tokens, runtime) ==
    LET mul == term_find_map(tokens, runtime, Multiply, 1)
    IN  IF mul # None THEN mul
        ELSE LET div == term_find_map(tokens, runtime, Divide, 1)
             IN  IF div # None THEN div
        ELSE LET neg == parse_negate(tokens, runtime)
             IN  IF neg # None THEN neg
        ELSE LET imp == parse_implicit_multiplication(tokens, runtime)
             IN  IF imp # None THEN imp
        ELSE parse_factor(tokens, runtime)

\* Multiply(parse_term(tokens[..cut])?, right?)
implicit_product(tokens, runtime, cut, right) ==
    LET l == parse_term(Prefix(tokens, cut), runtime)
    IN  IF l = None \/ right = None THEN None
        ELSE BasicOp("BasicOp::Multiply", l, right)

\* the split that never looks for a function name before the bracket
parse_implicit_multiplication_nofunc(tokens, runtime) ==
    IF tokens = <<>> THEN None
    ELSE LET last == tokens[Len(tokens)]
             n == Len(tokens)
         IN  IF IsNum(last)
             THEN implicit_product(tokens, runtime, n - 1, ENum(last[2]))
             ELSE IF IsIdentifier(last) /\ ~has_func(runtime, last[2])
             THEN implicit_product(tokens, runtime, n - 1, Variable(last[2]))
             ELSE IF last = CloseBracket
             THEN LET c == corresponding_open_bracket(tokens, n - 1, 1)
                  IN  IF c = 0 THEN None
                      ELSE implicit_product(tokens, runtime, c - 1,
                               parse_factor(Suffix(tokens, c), runtime))
             ELSE None

parse_implicit_multiplication(tokens, runtime) ==
    IF tokens = <<>> THEN None
    ELSE LET last == tokens[Len(tokens)]
             n == Len(tokens)
         IN  IF IsNum(last)
             THEN implicit_product(tokens, runtime, n - 1, ENum(last[2]))
             ELSE IF IsIdentifier(last) /\ ~has_func(runtime, last[2])
             THEN implicit_product(tokens, runtime, n - 1, Variable(last[2]))
             ELSE IF last = CloseBracket
             THEN LET c == corresponding_open_bracket(tokens, n - 1, 1)
                  IN  IF c = 0 THEN None
                      ELSE IF /\ c - 1 >= 2
                              /\ IsIdentifier(tokens[c - 1])
                              /\ has_func(runtime, tokens[c - 1][2])
                      THEN implicit_product(tokens, runtime, c - 2,
                               parse_factor(Suffix(tokens, c - 1), runtime))
                      ELSE implicit_product(tokens, runtime, c - 1,
                               parse_factor(Suffix(tokens, c), runtime))
             ELSE None

parse_factor(tokens, runtime) ==
    IF tokens = <<>> THEN None
    ELSE LET first == tokens[1]
             n == Len(tokens)
         IN  IF IsNum(first) /\ n = 1 THEN ENum(first[2])
             ELSE IF /\ IsIdentifier(first)
                     /\ n > 3
                     /\ tokens[2] = OpenBracket
                     /\ tokens[n] = CloseBracket
                     /\ has_func(runtime, first[2])
             THEN LET args == parse_arglist(SubSeq(tokens, 3, n - 1), runtime)
                  IN  IF args = None THEN None
                      ELSE FunctionExpression(args, first[2])
             ELSE IF IsIdentifier(first) /\ n = 1 /\ ~has_func(runtime, first[2])
             THEN Variable(first[2])
             ELSE IF first = OpenBracket /\ tokens[n] = CloseBracket
             THEN parse_expr(SubSeq(tokens, 2, n - 1), runtime)
             ELSE None

\* the loop of parse_arglist: arg_start is where the current argument
\* begins, i the token looked at; the arguments from arg_start on, or None
parse_arglist_from(tokens, runtime, arg_start, i) ==
    IF i > Len(tokens)
    THEN LET e == parse_expr(Suffix(tokens, arg_start), runtime)
         IN  IF e = None THEN None ELSE <<e>>
    ELSE IF tokens[i] = Coma /\ bracket_level(tokens, i) = 0
    THEN LET e == parse_expr(SubSeq(tokens, arg_start, i - 1), runtime)
             rest == parse_arglist_from(tokens, runtime, i + 1, i + 1)
         IN  IF e = None \/ rest = None THEN None ELSE <<e>> \o rest
    ELSE parse_arglist_from(tokens, runtime, arg_start, i + 1)

parse_arglist(tokens, runtime) == parse_arglist_from(tokens, runtime, 1, 1)

\* query_vars that forgets the arguments of a function call
RECURSIVE query_vars_noargs(_)
query_vars_noargs(e) ==
    IF e[1] = "f64" THEN {}
    ELSE IF e[1] = "Variable" THEN {e[2]}
    ELSE IF e[1] = "Negate" THEN query_vars_noargs(e[2])
    ELSE IF e[1] = "FunctionExpression" THEN {}
    ELSE query_vars_noargs(e[2]) \cup query_vars_noargs(e[3])

\* Expression::query_vars
RECURSIVE query_vars(_)
RECURSIVE query_vars_args(_)
query_vars(e) ==
    IF e[1] = "f64" THEN {}
    ELSE IF e[1] = "Variable" THEN {e[2]}
    ELSE IF e[1] = "Negate" THEN query_vars(e[2])
    ELSE IF e[1] = "FunctionExpression" THEN query_vars_args(e[2])
    ELSE query_vars(e[2]) \cup query_vars(e[3])

query_vars_args(args) ==
    IF args = <<>> THEN {}
    ELSE query_vars_args(Prefix(args, Len(args) - 1)) \cup query_vars(args[Len(args)])


(***************************************************************************)
(* The parser as a state machine: parse(expr, runtime), then query_vars.   *)
(***************************************************************************)
NotParsed == <<"NotParsed">>
NotQueried == <<"NotQueried">>

TableIdle ==
    /\ tf_input = <<>>
    /\ sorted_table = <<>>
    /\ tf_eps = R(0)
    /\ tf_arg = NoArg
    /\ tf_res = NoRes

IdleExceptParse ==
    TableIdle /\ CGIdle /\ VolterraIdle /\ IntegralEqIdle /\
      GoldenIdle /\ GradientsIdle /\ PenaltyIdle /\ SimpsonIdle /\ AreaIdle /\
      SplineIdle /\ RootIdle /\ TokenizeIdle /\ SampleIdle /\ CreatorIdle /\
      AppIdle
IdleExceptCG ==
    TableIdle /\ ParseIdle /\ VolterraIdle /\ IntegralEqIdle /\
      GoldenIdle /\ GradientsIdle /\ PenaltyIdle /\ SimpsonIdle /\ AreaIdle /\
      SplineIdle /\ RootIdle /\ TokenizeIdle /\ SampleIdle /\ CreatorIdle /\
      AppIdle
IdleExceptVolterra ==
    TableIdle /\ ParseIdle /\ CGIdle /\ IntegralEqIdle /\
      GoldenIdle /\ GradientsIdle /\ PenaltyIdle /\ SimpsonIdle /\ AreaIdle /\
      SplineIdle /\ RootIdle /\ TokenizeIdle /\ SampleIdle /\ CreatorIdle /\
      AppIdle
IdleExceptIntegralEq ==
    TableIdle /\ ParseIdle /\ CGIdle /\ VolterraIdle /\
      GoldenIdle /\ GradientsIdle /\ PenaltyIdle /\ SimpsonIdle /\ AreaIdle /\
      SplineIdle /\ RootIdle /\ TokenizeIdle /\ SampleIdle /\ CreatorIdle /\
      AppIdle
IdleExceptGolden ==
    TableIdle /\ ParseIdle /\ CGIdle /\ VolterraIdle /\
      IntegralEqIdle /\ GradientsIdle /\ PenaltyIdle /\ SimpsonIdle /\
      AreaIdle /\ SplineIdle /\ RootIdle /\ TokenizeIdle /\ SampleIdle /\
      CreatorIdle /\ AppIdle
IdleExceptGradients ==
    TableIdle /\ ParseIdle /\ CGIdle /\ VolterraIdle /\
      IntegralEqIdle /\ GoldenIdle /\ PenaltyIdle /\ SimpsonIdle /\ AreaIdle /\
      SplineIdle /\ RootIdle /\ TokenizeIdle /\ SampleIdle /\ CreatorIdle /\
      AppIdle
IdleExceptPenalty ==
    TableIdle /\ ParseIdle /\ CGIdle /\ VolterraIdle /\
      IntegralEqIdle /\ GoldenIdle /\ GradientsIdle /\ SimpsonIdle /\
      AreaIdle /\ SplineIdle /\ RootIdle /\ TokenizeIdle /\ SampleIdle /\
      CreatorIdle /\ AppIdle
IdleExceptSimpson ==
    TableIdle /\ ParseIdle /\ CGIdle /\ VolterraIdle /\
      IntegralEqIdle /\ GoldenIdle /\ GradientsIdle /\ PenaltyIdle /\
      AreaIdle /\ SplineIdle /\ RootIdle /\ TokenizeIdle /\ SampleIdle /\
      CreatorIdle /\ AppIdle
IdleExceptArea ==
    TableIdle /\ ParseIdle /\ CGIdle /\ VolterraIdle /\
      IntegralEqIdle /\ GoldenIdle /\ GradientsIdle /\ PenaltyIdle /\
      SimpsonIdle /\ SplineIdle /\ RootIdle /\ TokenizeIdle /\ SampleIdle /\
      CreatorIdle /\ AppIdle
IdleExceptSpline ==
    TableIdle /\ ParseIdle /\ CGIdle /\ VolterraIdle /\
      IntegralEqIdle /\ GoldenIdle /\ GradientsIdle /\ PenaltyIdle /\
      SimpsonIdle /\ AreaIdle /\ RootIdle /\ TokenizeIdle /\ SampleIdle /\
      CreatorIdle /\ AppIdle
IdleExceptRoot ==
    TableIdle /\ ParseIdle /\ CGIdle /\ VolterraIdle /\
      IntegralEqIdle /\ GoldenIdle /\ GradientsIdle /\ PenaltyIdle /\
      SimpsonIdle /\ AreaIdle /\ SplineIdle /\ TokenizeIdle /\ SampleIdle /\
      CreatorIdle /\ AppIdle
IdleExceptTokenize ==
    TableIdle /\ ParseIdle /\ CGIdle /\ VolterraIdle /\
      IntegralEqIdle /\ GoldenIdle /\ GradientsIdle /\ PenaltyIdle /\
      SimpsonIdle /\ AreaIdle /\ SplineIdle /\ RootIdle /\ SampleIdle /\
      CreatorIdle /\ AppIdle
IdleExceptSample ==
    TableIdle /\ ParseIdle /\ CGIdle /\ VolterraIdle /\
      IntegralEqIdle /\ GoldenIdle /\ GradientsIdle /\ PenaltyIdle /\
      SimpsonIdle /\ AreaIdle /\ SplineIdle /\ RootIdle /\ TokenizeIdle /\
      CreatorIdle /\ AppIdle
IdleExceptCreator ==
    TableIdle /\ ParseIdle /\ CGIdle /\ VolterraIdle /\
      IntegralEqIdle /\ GoldenIdle /\ GradientsIdle /\ PenaltyIdle /\
      SimpsonIdle /\ AreaIdle /\ SplineIdle /\ RootIdle /\ TokenizeIdle /\
      SampleIdle /\ AppIdle
IdleExceptApp ==
    TableIdle /\ ParseIdle /\ CGIdle /\ VolterraIdle /\
      IntegralEqIdle /\ GoldenIdle /\ GradientsIdle /\ PenaltyIdle /\
      SimpsonIdle /\ AreaIdle /\ SplineIdle /\ RootIdle /\ TokenizeIdle /\
      SampleIdle /\ CreatorIdle

BinaryOps == {Plus, Minus, Multiply, Divide}

\* n1 op1 n2 ... opk n(k+1), the numbers being 1, 2, ... in order
ArithTokens(ops) ==
    [i \in 1..(2 * Len(ops) + 1) |->
        IF i % 2 = 1 THEN Num(R((i + 1) \div 2)) ELSE ops[i \div 2]]

ArithInputs ==
    {ArithTokens(ops) : ops \in UNION {[1..k -> BinaryOps] : k \in 0..MaxOps}}

Alphabet ==
    {Num(R(2)), Identifier("x"), Identifier("sin"), OpenBracket, CloseBracket,
     Minus, Multiply, Coma}

AlphabetInputs == UNION {[1..n -> Alphabet] : n \in 0..MaxTokens}

\* the token lists of the strings of the unit tests and of the specification
Tok_2x == <<Num(R(2)), Identifier("x")>>

Tok_2sinx_3cos4x ==
    <<Num(R(2)), Identifier("sin"), OpenBracket, Identifier("x"), CloseBracket,
      Minus, Num(R(3)), Identifier("cos"), OpenBracket, Num(R(4)),
      Identifier("x"), CloseBracket>>

Tok_sinx_x1 ==
    <<Identifier("sin"), OpenBracket, Identifier("x"), CloseBracket,
      OpenBracket, Identifier("x"), Plus, Num(R(1)), CloseBracket>>

Tok_vars ==
    <<Identifier("x"), Plus, Num(R(4)), OpenBracket, Identifier("x"), Minus,
      Num(R(2)), Identifier("y"), CloseBracket, Identifier("sin"), OpenBracket,
      Identifier("z"), Multiply, Identifier("x"), CloseBracket>>

Tok_pow == 
    <<Num(R(3)), Identifier("pow"), OpenBracket, Num(R(6)), Coma, Num(R(2)),
      Identifier("y"), CloseBracket>>

Tok_nested ==
    <<Identifier("x"), OpenBracket, OpenBracket, Identifier("x"), CloseBracket,
      Identifier("y"), CloseBracket>>

ExampleInputs ==
    {Tok_2x, Tok_2sinx_3cos4x, Tok_sinx_x1, Tok_vars, Tok_pow, Tok_nested}

\* factors, to be preceded by any short run of tokens
Factors ==
    {<<Identifier("sin"), OpenBracket, Identifier("x"), CloseBracket>>,
     <<Identifier("pow"), OpenBracket, Identifier("x"), Coma, Num(R(2)), CloseBracket>>,
     <<OpenBracket, Identifier("x"), Plus, Num(R(1)), CloseBracket>>,
     <<OpenBracket, OpenBracket, Identifier("y"), CloseBracket, Identifier("sin"),
       OpenBracket, Identifier("x"), CloseBracket, CloseBracket>>,
     <<Identifier("y")>>}

LeadInputs == UNION {[1..n -> Alphabet] : n \in 0..MaxLead}

JuxtaInputs == {a \o f : a \in LeadInputs, f \in Factors}

ParseInputs ==
    ArithInputs \cup AlphabetInputs \cup JuxtaInputs \cup ExampleInputs

Runtimes == {DefaultRuntime, {}}

InitParse ==
    /\ p_tokens \in ParseInputs
    /\ p_runtime \in Runtimes
    /\ p_ast = NotParsed
    /\ p_qvars = NotQueried
    /\ p_pc = "start"
    /\ IdleExceptParse

\* parse_expr(&p_tokens, p_runtime)
ParseExpr ==
    /\ p_pc = "start"
    /\ p_ast' = parse_expr(p_tokens, p_runtime)
    /\ p_pc' = "parsed"
    /\ UNCHANGED <<p_tokens, p_runtime, p_qvars>>
    /\ UNCHANGED exceptParse

\* expr.query_vars() on a successful parse
QueryVars ==
    /\ p_pc = "parsed"
    /\ p_ast # None
    /\ p_qvars' = query_vars(p_ast)
    /\ p_pc' = "queried"
    /\ UNCHANGED <<p_tokens, p_runtime, p_ast>>
    /\ UNCHANGED exceptParse

NextParse == ParseExpr \/ QueryVars

SpecParse == InitParse /\ [][NextParse]_vars


(***************************************************************************)
(* Claims about the parser.                                                *)
(***************************************************************************)
Parsed == p_pc \in {"parsed", "queried"}

\* a bracket-free sequence n1 op1 n2 ... opk n(k+1)
IsArith(t) ==
    /\ Len(t) % 2 = 1
    /\ \A i \in 1..Len(t) :
           IF i % 2 = 1 THEN IsNum(t[i]) ELSE t[i] \in BinaryOps

\* the last position of t holding one of ops, 0 when there is none
LastOp(t, ops) ==
    LET at == {i \in 1..Len(t) : t[i] \in ops}
    IN  IF at = {} THEN 0 ELSE CHOOSE i \in at : \A j \in at : j <= i

\* the textbook tree of the left-recursive grammar
\*   expr := expr (+|-) term | term      term := term (*|/) number | number
RECURSIVE StdTerm(_)
StdTerm(t) ==
    LET k == LastOp(t, {Multiply, Divide})
    IN  IF k = 0 THEN ENum(t[1][2])
        ELSE BasicOp(OpName(t[k]), StdTerm(Prefix(t, k - 1)), ENum(t[k + 1][2]))

RECURSIVE StdExpr(_)
StdExpr(t) ==
    LET k == LastOp(t, {Plus, Minus})
    IN  IF k = 0 THEN StdTerm(t)
        ELSE BasicOp(OpName(t[k]), StdExpr(Prefix(t, k - 1)), StdTerm(Suffix(t, k + 1)))

\* C4: every bracket-free sequence of numbers and binary operators parses,
\* and to the standard tree: * and / bind tighter than + and -, operators of
\* equal precedence associate to the left.
C4_StandardTree ==
    (Parsed /\ IsArith(p_tokens)) => p_ast = StdExpr(p_tokens)

\* n - n * n - n parsed as (n - (n * n)) - n
C4_Witness ==
    /\ Parsed
    /\ IsArith(p_tokens)
    /\ Len(p_tokens) = 7
    /\ p_tokens[2] = Minus /\ p_tokens[4] = Multiply /\ p_tokens[6] = Minus
    /\ p_ast[1] = "BasicOp::Minus"
    /\ p_ast[2][1] = "BasicOp::Minus"
    /\ p_ast[2][3][1] = "BasicOp::Multiply"

\* closing minus opening brackets among t[k..n]
DepthFrom(t, k) ==
    Cardinality({i \in k..Len(t) : t[i] = CloseBracket})
    - Cardinality({i \in k..Len(t) : t[i] = OpenBracket})

\* the bracket that the closing bracket ending t closes, 0 when there is none
MatchingOpen(t) ==
    LET ms == {m \in 1..(Len(t) - 1) :
                  /\ t[m] = OpenBracket
                  /\ DepthFrom(t, m) = 0
                  /\ \A k \in (m + 1)..Len(t) : DepthFrom(t, k) > 0}
    IN  IF ms = {} THEN 0 ELSE CHOOSE m \in ms : TRUE

IsFuncName(t, i, rt) ==
    i >= 1 /\ i <= Len(t) /\ IsIdentifier(t[i]) /\ has_func(rt, t[i][2])

\* where the right factor of a juxtaposition starts, 0 when the last token
\* cannot end a factor
RightFactorStart(t, rt) ==
    LET last == t[Len(t)]
    IN  IF IsNum(last) THEN Len(t)
        ELSE IF IsIdentifier(last)
             THEN IF has_func(rt, last[2]) THEN 0 ELSE Len(t)
        ELSE IF last = CloseBracket
             THEN LET m == MatchingOpen(t)
                  IN  IF m = 0 THEN 0
                      ELSE IF IsFuncName(t, m - 1, rt) THEN m - 1 ELSE m
        ELSE 0

Ast_2x == BasicOp("BasicOp::Multiply", ENum(R(2)), Variable("x"))

Ast_2sinx_3cos4x ==
    BasicOp("BasicOp::Minus",
        BasicOp("BasicOp::Multiply", ENum(R(2)),
            FunctionExpression(<<Variable("x")>>, "sin")),
        BasicOp("BasicOp::Multiply", ENum(R(3)),
            FunctionExpression(
                <<BasicOp("BasicOp::Multiply", ENum(R(4)), Variable("x"))>>,
                "cos")))

\* a token list that parse_expr hands to parse_term whole, that has no usable
\* explicit * or /, does not begin with a minus and ends in a factor
Juxtaposed(t, rt) ==
    /\ t # <<>>
    /\ t[1] # Minus
    /\ expr_find_map(t, rt, Plus, 1) = None
    /\ expr_find_map(t, rt, Minus, 1) = None
    /\ term_find_map(t, rt, Multiply, 1) = None
    /\ term_find_map(t, rt, Divide, 1) = None
    /\ RightFactorStart(t, rt) > 1
    /\ parse_term(Prefix(t, RightFactorStart(t, rt) - 1), rt) # None
    /\ parse_factor(Suffix(t, RightFactorStart(t, rt)), rt) # None

\* C5: a term without usable explicit * or / that does not begin with a minus
\* is Multiply(parse_term(prefix), right factor): the right factor is the last
\* token (a number or a non-function identifier), the trailing func(...) call,
\* or else the trailing bracketed group; "2x" is 2*x and "2sin(x)-3cos(4x)"
\* is 2*sin(x) - 3*cos(4*x).
C5_ImplicitMultiplication ==
    Parsed =>
        /\ Juxtaposed(p_tokens, p_runtime) =>
               LET k == RightFactorStart(p_tokens, p_runtime)
               IN  p_ast = BasicOp("BasicOp::Multiply",
                               parse_term(Prefix(p_tokens, k - 1), p_runtime),
                               parse_factor(Suffix(p_tokens, k), p_runtime))
        /\ p_tokens = Tok_2x => p_ast = Ast_2x
        /\ (p_tokens = Tok_2sinx_3cos4x /\ p_runtime = DefaultRuntime)
               => p_ast = Ast_2sinx_3cos4x

\* a prefix times a trailing function call: 2 sin ( x )
C5_Witness ==
    /\ Parsed
    /\ Juxtaposed(p_tokens, p_runtime)
    /\ p_tokens[Len(p_tokens)] = CloseBracket
    /\ IsFuncName(p_tokens, MatchingOpen(p_tokens) - 1, p_runtime)
    /\ p_ast[1] = "BasicOp::Multiply"
    /\ p_ast[3][1] = "FunctionExpression"

Ast_sinx_x1 ==
    BasicOp("BasicOp::Multiply",
        FunctionExpression(<<Variable("x")>>, "sin"),
        BasicOp("BasicOp::Plus", Variable("x"), ENum(R(1))))

Is_sinx_x1 == Parsed /\ p_tokens = Tok_sinx_x1 /\ p_runtime = DefaultRuntime

\* C6 as stated: parse("sin(x)(x+1)") under the default runtime fails, so it
\* does not yield the product of sin(x) and (x+1).
C6_SinGroupRejected == Is_sinx_x1 => p_ast = None

\* C6 amended: parse("sin(x)(x+1)") under the default runtime succeeds and
\* yields the product of sin(x) and (x+1).
C6_SinGroupIsProduct == Is_sinx_x1 => p_ast = Ast_sinx_x1

C6_Witness == Is_sinx_x1 /\ p_ast[1] = "BasicOp::Multiply"

\* the identifiers of the input that the runtime does not know as functions
InputVariables(t, rt) ==
    {t[i][2] : i \in {j \in 1..Len(t) : IsIdentifier(t[j]) /\ ~has_func(rt, t[j][2])}}

\* C7: for every input that parses, query_vars of the tree is exactly the set
\* of identifier tokens for which has_func is false.
C7_QueryVars ==
    p_pc = "queried" => p_qvars = InputVariables(p_tokens, p_runtime)

\* "x+4(x-2y)sin(z*x)" has the variables x, y, z and not sin
C7_Witness ==
    /\ p_pc = "queried"
    /\ p_tokens = Tok_vars
    /\ p_runtime = DefaultRuntime
    /\ p_qvars = {"x", "y", "z"}

(***************************************************************************)
(* conjugate_gradient_method                                               *)
(***************************************************************************)
\* sum over j < k of mat[i * n + j] * x[j]  (indices from 1 here)
RECURSIVE row_dot(_, _, _, _, _)
row_dot(mat, x, n, i, k) ==
    IF k = 0 THEN R(0)
    ELSE RAdd(row_dot(mat, x, n, i, k - 1), RMul(mat[(i - 1) * n + k], x[k]))

\* the loop for i in 0..n of discrepency, up to row k
RECURSIVE discrepency_rows(_, _, _, _, _)
discrepency_rows(mat, x, f, n, k) ==
    IF k = 0 THEN <<>>
    ELSE Append(discrepency_rows(mat, x, f, n, k - 1),
                RAdd(RNeg(f[k]), row_dot(mat, x, n, k, n)))

\* discrepency(mat, x, f, r, n): r = mat x - f
discrepency(mat, x, f, n) == discrepency_rows(mat, x, f, n, n)

\* the loop for i in 0..n of apply, up to row k
RECURSIVE apply_rows(_, _, _, _)
apply_rows(mat, x, n, k) ==
    IF k = 0 THEN <<>>
    ELSE Append(apply_rows(mat, x, n, k - 1), row_dot(mat, x, n, k, n))

\* apply(mat, x, y, n): y = mat x
apply_mat(mat, x, n) == apply_rows(mat, x, n, n)

RECURSIVE dot_upto(_, _, _)
dot_upto(a, b, k) ==
    IF k = 0 THEN R(0) ELSE RAdd(dot_upto(a, b, k - 1), RMul(a[k], b[k]))

\* dot(a, b, _): the sum over the zipped slices
dot(a, b, n) ==
    dot_upto(a, b, IF Len(a) < Len(b) THEN Len(a) ELSE Len(b))

\* wkrk / dot(awk, wk) with the step taken along w instead of its A-image
step_tau_unscaled(wkrk, awk, wk, n) == RDiv(wkrk, dot(wk, wk, n))

\* tau = wkrk / dot(&awk, &wk, n)
step_tau(wkrk, awk, wk, n) == RDiv(wkrk, dot(awk, wk, n))

\* alpha = 1.0 / (1.0 - (tau * wkrk) / (prev_tau * prev_alpha * prev_wkrk))
step_alpha(tau, wkrk, prev_tau, prev_alpha, prev_wkrk) ==
    RDiv(R(1),
         RSub(R(1),
              RDiv(RMul(tau, wkrk),
                   RMul(RMul(prev_tau, prev_alpha), prev_wkrk))))

\* rk, e, wk, awk, wkrk and tau as one pass of the routine computes them
cg_locals(a, inv_b, x, f, n) ==
    LET rk == discrepency(a, x, f, n)
        wk == apply_mat(inv_b, rk, n)
        awk == apply_mat(a, wk, n)
        wkrk == dot(wk, rk, n)
    IN  [rk |-> rk, e |-> dot(rk, rk, n), wk |-> wk, awk |-> awk,
         wkrk |-> wkrk, tau |-> step_tau(wkrk, awk, wk, n)]

\* e < eps * eps
converged(e, eps) == RLt(e, RMul(eps, eps))

\* x[i] = prev_x[i] - tau * wk[i]
RECURSIVE two_term_update(_, _, _, _)
two_term_update(prev_x, tau, wk, n) ==
    IF n = 0 THEN <<>>
    ELSE Append(two_term_update(prev_x, tau, wk, n - 1),
                RSub(prev_x[n], RMul(tau, wk[n])))

\* x[i] = alpha * x[i] + (1.0 - alpha) * prev_x[i] - tau * alpha * wk[i]
RECURSIVE three_term_update(_, _, _, _, _, _)
three_term_update(x, prev_x, alpha, tau, wk, n) ==
    IF n = 0 THEN <<>>
    ELSE Append(three_term_update(x, prev_x, alpha, tau, wk, n - 1),
                RSub(RAdd(RMul(alpha, x[n]),
                          RMul(RSub(R(1), alpha), prev_x[n])),
                     RMul(RMul(tau, alpha), wk[n])))

\* inputs
Identity(n) == [k \in 1..(n * n) |-> IF (k - 1) \div n = (k - 1) % n THEN R(1) ELSE R(0)]
Zero(n) == [k \in 1..n |-> R(0)]
Unit(n) == [k \in 1..n |-> IF k = 1 THEN R(1) ELSE R(0)]
SymMatrices2 ==
    {<<R(p), R(q), R(q), R(s)>> : p \in {1, 2}, q \in {0, 1, 2}, s \in {1, 2, 5, 7}}
SymMatrices3 ==
    { <<R(1), R(1), R(0),  R(1), R(2), R(0),  R(0), R(0), R(3)>>,
      <<R(1), R(0), R(0),  R(0), R(3), R(1),  R(0), R(1), R(3)>> }
RhsValues2 == {R(-1), R(0), R(1), R(3)}
RhsValues3 == {R(-1), R(0), R(1)}
CGSystems ==
    {[n |-> 2, a |-> m, rhs |-> RhsValues2] : m \in SymMatrices2}
        \cup {[n |-> 3, a |-> m, rhs |-> RhsValues3] : m \in SymMatrices3}
CGEps == {Q(1, 10), R(2)}

\* the entry of conjugate_gradient_method, prev_x = x.to_owned() done
InitCG ==
    \E sys \in CGSystems :
        /\ cg_n = sys.n
        /\ cg_a = sys.a
        /\ cg_inv_b = Identity(sys.n)
        /\ cg_f \in [1..sys.n -> sys.rhs]
        /\ cg_eps \in CGEps
        /\ cg_max_iter_count \in 0..MaxIter
        /\ cg_x0 \in {Zero(sys.n), Unit(sys.n)}
        /\ cg_x = cg_x0
        /\ cg_prev_x = cg_x0
        /\ cg_prev_tau = R(0)
        /\ cg_prev_alpha = R(0)
        /\ cg_prev_wkrk = R(0)
        /\ cg_iter = 0
        /\ cg_step_count = 0
        /\ cg_pc = "start"
        /\ IdleExceptCG

cgInputs == <<cg_a, cg_inv_b, cg_f, cg_n, cg_eps, cg_max_iter_count, cg_x0>>

\* the first test: if e < eps * eps { return; }
CGReturnAtStart ==
    /\ cg_pc = "start"
    /\ converged(cg_locals(cg_a, cg_inv_b, cg_prev_x, cg_f, cg_n).e, cg_eps)
    /\ cg_pc' = "done"
    /\ UNCHANGED <<cgInputs, cg_x, cg_prev_x, cg_prev_tau, cg_prev_alpha,
                   cg_prev_wkrk, cg_iter, cg_step_count>>
    /\ UNCHANGED exceptCG

\* the two-term step before the loop
CGBootstrap ==
    /\ cg_pc = "start"
    /\ \E l \in {cg_locals(cg_a, cg_inv_b, cg_prev_x, cg_f, cg_n)} :
        /\ ~converged(l.e, cg_eps)
        /\ cg_x' = two_term_update(cg_prev_x, l.tau, l.wk, cg_n)
        /\ cg_prev_tau' = l.tau
        /\ cg_prev_alpha' = R(1)
        /\ cg_prev_wkrk' = l.wkrk
    /\ cg_step_count' = cg_step_count + 1
    /\ cg_pc' = "loop"
    /\ UNCHANGED <<cgInputs, cg_prev_x, cg_iter>>
    /\ UNCHANGED exceptCG

\* the test inside the loop: if e < eps * eps { return; }
CGReturnInLoop ==
    /\ cg_pc = "loop"
    /\ cg_iter < cg_max_iter_count
    /\ converged(cg_locals(cg_a, cg_inv_b, cg_x, cg_f, cg_n).e, cg_eps)
    /\ cg_pc' = "done"
    /\ UNCHANGED <<cgInputs, cg_x, cg_prev_x, cg_prev_tau, cg_prev_alpha,
                   cg_prev_wkrk, cg_iter, cg_step_count>>
    /\ UNCHANGED exceptCG

\* one pass of the body of for _ in 0..max_iter_count
CGLoopStep ==
    /\ cg_pc = "loop"
    /\ cg_iter < cg_max_iter_count
    /\ \E l \in {cg_locals(cg_a, cg_inv_b, cg_x, cg_f, cg_n)} :
       \E alpha \in {step_alpha(l.tau, l.wkrk, cg_prev_tau, cg_prev_alpha,
                                cg_prev_wkrk)} :
        /\ ~converged(l.e, cg_eps)
        /\ cg_x' = three_term_update(cg_x, cg_prev_x, alpha, l.tau, l.wk, cg_n)
        /\ cg_prev_x' = cg_x
        /\ cg_prev_alpha' = alpha
        /\ cg_prev_tau' = l.tau
        /\ cg_prev_wkrk' = l.wkrk
    /\ cg_iter' = cg_iter + 1
    /\ cg_step_count' = cg_step_count + 1
    /\ UNCHANGED <<cgInputs, cg_pc>>
    /\ UNCHANGED exceptCG

\* the range 0..max_iter_count is exhausted: the routine returns
CGLoopEnd ==
    /\ cg_pc = "loop"
    /\ cg_iter = cg_max_iter_count
    /\ cg_pc' = "done"
    /\ UNCHANGED <<cgInputs, cg_x, cg_prev_x, cg_prev_tau, cg_prev_alpha,
                   cg_prev_wkrk, cg_iter, cg_step_count>>
    /\ UNCHANGED exceptCG

NextCG ==
    \/ CGReturnAtStart
    \/ CGBootstrap
    \/ CGReturnInLoop
    \/ CGLoopStep
    \/ CGLoopEnd

SpecCG == InitCG /\ [][NextCG]_vars

(***************************************************************************)
(* Claims about conjugate_gradient_method                                  *)
(***************************************************************************)
CGRunning == cg_pc \in {"start", "loop", "done"}

\* <r, r> for r = a x - f
residual(a, x, f, n) ==
    LET r == discrepency(a, x, f, n) IN dot(r, r, n)

\* the quadratic functional <a x, x> - 2 <f, x>; it differs from the squared
\* A-norm of the error by a constant
energy(a, x, f, n) ==
    RSub(dot(apply_mat(a, x, n), x, n), RMul(R(2), dot(f, x, n)))

Entry(m, n, i, j) == m[(i - 1) * n + j]

Det2(m, n) ==
    RSub(RMul(Entry(m, n, 1, 1), Entry(m, n, 2, 2)),
         RMul(Entry(m, n, 1, 2), Entry(m, n, 2, 1)))

Det3(m, n) ==
    RAdd(RSub(RMul(Entry(m, n, 1, 1),
                   RSub(RMul(Entry(m, n, 2, 2), Entry(m, n, 3, 3)),
                        RMul(Entry(m, n, 2, 3), Entry(m, n, 3, 2)))),
              RMul(Entry(m, n, 1, 2),
                   RSub(RMul(Entry(m, n, 2, 1), Entry(m, n, 3, 3)),
                        RMul(Entry(m, n, 2, 3), Entry(m, n, 3, 1))))),
         RMul(Entry(m, n, 1, 3),
              RSub(RMul(Entry(m, n, 2, 1), Entry(m, n, 3, 2)),
                   RMul(Entry(m, n, 2, 2), Entry(m, n, 3, 1)))))

\* symmetric with positive leading principal minors (n <= 3)
IsSPD(m, n) ==
    /\ n \in 1..3
    /\ \A i, j \in 1..n : Entry(m, n, i, j) = Entry(m, n, j, i)
    /\ RLt(R(0), Entry(m, n, 1, 1))
    /\ n >= 2 => RLt(R(0), Det2(m, n))
    /\ n >= 3 => RLt(R(0), Det3(m, n))

\* C8 as stated: counting the two-term step, at most max_iter_count updates
\* are applied to x; with max_iter_count = 0 the routine returns x equal to
\* the caller's guess; and when the first residual already has
\* <r, r> < eps^2, x is returned unchanged.
C8_StopsAtCap ==
    CGRunning =>
        /\ cg_step_count <= cg_max_iter_count
        /\ cg_pc = "done" /\ cg_max_iter_count = 0 => cg_x = cg_x0
        /\ cg_pc = "done"
             /\ converged(residual(cg_a, cg_x0, cg_f, cg_n), cg_eps)
           => cg_x = cg_x0

\* what the routine does keep: the two-term step is not counted, so x gets
\* at most max_iter_count + 1 updates, and none when the first residual is
\* already small
CGStopsAtCapPlusOne ==
    CGRunning =>
        /\ cg_step_count <= cg_max_iter_count + 1
        /\ converged(residual(cg_a, cg_x0, cg_f, cg_n), cg_eps)
           => cg_x = cg_x0 /\ cg_step_count = 0

\* the case C9 is about: a symmetric positive-definite matrix, the identity
\* as preconditioner, and prev_x the iterate before x
CGStepTaken ==
    /\ cg_pc \in {"loop", "done"}
    /\ cg_step_count >= 1
    /\ IsSPD(cg_a, cg_n)
    /\ cg_inv_b = Identity(cg_n)

\* C9 as stated: for a symmetric positive-definite matrix and the identity
\* as preconditioner, <r, r> does not grow from one iterate to the next.
C9_ResidualMonotone ==
    CGStepTaken =>
        RLe(residual(cg_a, cg_x, cg_f, cg_n),
            residual(cg_a, cg_prev_x, cg_f, cg_n))

\* C9 amended: for a symmetric positive-definite matrix and the identity as
\* preconditioner, the functional <A x, x> - 2 <f, x> (the A-norm of the
\* error) does not grow from one iterate to the next; <r, r> may.
C9_EnergyMonotone ==
    CGStepTaken =>
        RLe(energy(cg_a, cg_x, cg_f, cg_n),
            energy(cg_a, cg_prev_x, cg_f, cg_n))

\* a three-term step after which the functional is smaller and <r, r> larger
C9_Witness ==
    /\ CGStepTaken
    /\ cg_step_count >= 2
    /\ RLt(energy(cg_a, cg_x, cg_f, cg_n),
           energy(cg_a, cg_prev_x, cg_f, cg_n))
    /\ RLt(residual(cg_a, cg_prev_x, cg_f, cg_n),
           residual(cg_a, cg_x, cg_f, cg_n))

(***************************************************************************)
(* volterra_2nd_system and WolterraSecondKindSystemOfEquations::solve      *)
(***************************************************************************)
DummyError == <<"Err", "DummyError">>
FunctionError == <<"Err", "FunctionError">>
IsOk(res) == res[1] = "Ok"

\* kernel.apply(x, s) for a few kernels; "undefined" always fails
kernel_apply(kernel, x, s) ==
    CASE kernel = "1" -> Ok(R(1))
      [] kernel = "x" -> Ok(x)
      [] kernel = "s" -> Ok(s)
      [] kernel = "x-s" -> Ok(RSub(x, s))
      [] OTHER -> DummyError

\* right_side.apply(x) for a few right sides; "undefined" always fails
right_side_apply(right_side, x) ==
    CASE right_side = "1" -> Ok(R(1))
      [] right_side = "x" -> Ok(x)
      [] right_side = "x+1" -> Ok(RAdd(x, R(1)))
      [] OTHER -> DummyError

\* the number of grid nodes: n, or step_count + 1 in the older copy
node_count(impl, count) == IF impl = "solve" THEN count + 1 ELSE count

\* step = (to - from) / (n as f64 - 1.0), or / step_count in the older copy
grid_step(impl, from, to, count) ==
    IF impl = "solve" THEN RDiv(RSub(to, from), R(count))
    ELSE RDiv(RSub(to, from), RSub(R(count), R(1)))

\* from + step * (i as f64)
node(from, step, i) == RAdd(from, RMul(step, R(i)))

\* (0..n).map(|i| (i as f64) * step + from).map(|x| (x, 0.0)).collect()
RECURSIVE grid(_, _, _)
grid(from, step, n) ==
    IF n = 0 THEN <<>>
    ELSE Append(grid(from, step, n - 1),
                <<RAdd(RMul(R(n - 1), step), from), R(0)>>)

\* (1..i).try_fold(0.0, |acc, j| kernel(x_i, x_j) * y[j].1 + acc), the
\* first j passes of it
RECURSIVE try_fold(_, _, _, _, _, _)
try_fold(kernel, from, step, y, i, j) ==
    IF j = 0 THEN Ok(R(0))
    ELSE LET acc == try_fold(kernel, from, step, y, i, j - 1)
             k == kernel_apply(kernel, node(from, step, i), node(from, step, j))
         IN  IF ~IsOk(acc) THEN acc
             ELSE IF ~IsOk(k) THEN FunctionError
             ELSE Ok(RAdd(RMul(k[2], y[j + 1][2]), acc[2]))

\* one pass of the loop body: the value stored in y[i].1, or the error
sweep_y(kernel, right_side, from, step, lambda, y, i) ==
    LET xi == node(from, step, i)
        kii == kernel_apply(kernel, xi, xi)
        ki0 == kernel_apply(kernel, xi, from)
        fold == try_fold(kernel, from, step, y, i, i - 1)
        g == right_side_apply(right_side, xi)
    IN  IF ~IsOk(kii) \/ ~IsOk(ki0) \/ ~IsOk(fold) \/ ~IsOk(g)
        THEN FunctionError
        ELSE LET div == RSub(R(1),
                             RMul(RMul(RMul(lambda, kii[2]), step), Q(1, 2)))
                 sum == RAdd(RMul(RMul(RMul(Q(1, 2), ki0[2]), step), lambda),
                             RMul(step, fold[2]))
             IN  Ok(RDiv(RAdd(g[2], RMul(lambda, sum)), div))

\* inputs
Impls == {"volterra_2nd_system", "solve"}
Kernels == {"1", "x", "s", "x-s", "undefined"}
RightSides == {"1", "x", "x+1", "undefined"}
Lambdas == {R(-1), Q(1, 2), R(1), R(2)}
UpperLimits == {R(1), R(2)}
NoResult == <<"NoResult">>

\* the entry of the routine
InitVolterra ==
    /\ vo_impl \in Impls
    /\ vo_kernel \in Kernels
    /\ vo_right_side \in RightSides
    /\ vo_from = R(0)
    /\ vo_to \in UpperLimits
    /\ vo_lambda \in Lambdas
    /\ vo_count \in 2..MaxN
    /\ vo_step = R(0)
    /\ vo_y = <<>>
    /\ vo_i = 0
    /\ vo_result = NoResult
    /\ vo_pc = "start"
    /\ IdleExceptVolterra

voInputs ==
    <<vo_impl, vo_kernel, vo_right_side, vo_from, vo_to, vo_lambda, vo_count>>

\* step, the grid and y[0].1 = right_side.apply(from)?
VolterraStart ==
    /\ vo_pc = "start"
    /\ \E step \in {grid_step(vo_impl, vo_from, vo_to, vo_count)} :
       \E g0 \in {right_side_apply(vo_right_side, vo_from)} :
       \E y \in {grid(vo_from, step, node_count(vo_impl, vo_count))} :
        /\ vo_step' = step
        /\ IF IsOk(g0)
           THEN /\ vo_y' = [y EXCEPT ![1] = <<y[1][1], g0[2]>>]
                /\ vo_i' = 1
                /\ vo_pc' = "sweep"
                /\ UNCHANGED vo_result
           ELSE /\ vo_y' = y
                /\ vo_result' = FunctionError
                /\ vo_pc' = "done"
                /\ UNCHANGED vo_i
    /\ UNCHANGED voInputs
    /\ UNCHANGED exceptVolterra

\* one pass of the loop over i
VolterraSweep ==
    /\ vo_pc = "sweep"
    /\ vo_i < node_count(vo_impl, vo_count)
    /\ \E yi \in {sweep_y(vo_kernel, vo_right_side, vo_from, vo_step,
                          vo_lambda, vo_y, vo_i)} :
        IF IsOk(yi)
        THEN /\ vo_y' = [vo_y EXCEPT ![vo_i + 1] = <<vo_y[vo_i + 1][1], yi[2]>>]
             /\ vo_i' = vo_i + 1
             /\ UNCHANGED <<vo_result, vo_pc>>
        ELSE /\ vo_result' = yi
             /\ vo_pc' = "done"
             /\ UNCHANGED <<vo_y, vo_i>>
    /\ UNCHANGED <<voInputs, vo_step>>
    /\ UNCHANGED exceptVolterra

\* Ok(TableFunction::from_table(y))
VolterraReturn ==
    /\ vo_pc = "sweep"
    /\ vo_i = node_count(vo_impl, vo_count)
    /\ vo_result' = Ok(from_table(vo_y))
    /\ vo_pc' = "done"
    /\ UNCHANGED <<voInputs, vo_step, vo_y, vo_i>>
    /\ UNCHANGED exceptVolterra

NextVolterra == VolterraStart \/ VolterraSweep \/ VolterraReturn

SpecVolterra == InitVolterra /\ [][NextVolterra]_vars

(***************************************************************************)
(* Claims about the Volterra sweep                                         *)
(***************************************************************************)
\* the kernel and the right side are defined on the grid and y_0 is stored
VolterraSwept ==
    /\ vo_pc \in {"sweep", "done"}
    /\ vo_kernel # "undefined"
    /\ vo_right_side # "undefined"

\* SUM_{j = 1..k} K(x_i, x_j) * y_j
RECURSIVE KernelSum(_, _)
KernelSum(i, k) ==
    IF k = 0 THEN R(0)
    ELSE RAdd(KernelSum(i, k - 1),
              RMul(kernel_apply(vo_kernel, node(vo_from, vo_step, i),
                                node(vo_from, vo_step, k))[2],
                   vo_y[k + 1][2]))

\* lambda * h * K(x_i, x_0) / 2
FirstTerm(i) ==
    RDiv(RMul(RMul(vo_lambda, vo_step),
              kernel_apply(vo_kernel, node(vo_from, vo_step, i),
                           node(vo_from, vo_step, 0))[2]),
         R(2))

\* div_i = 1 - lambda * h * K(x_i, x_i) / 2
Div(i) ==
    RSub(R(1),
         RDiv(RMul(RMul(vo_lambda, vo_step),
                   kernel_apply(vo_kernel, node(vo_from, vo_step, i),
                                node(vo_from, vo_step, i))[2]),
              R(2)))

\* (g(x_i) + first + lambda * h * SUM_{j = 1..i-1} K(x_i, x_j) * y_j) / div_i
SweepValue(i, first) ==
    RDiv(RAdd(right_side_apply(vo_right_side, node(vo_from, vo_step, i))[2],
              RAdd(first,
                   RMul(RMul(vo_lambda, vo_step), KernelSum(i, i - 1)))),
         Div(i))

\* C10 as stated: y_0 = g(x_0) and every y_i computed so far is
\* (g(x_i) + sum_i) / div_i with sum_i = lambda*h*K(x_i,x_0)/2
\* + lambda*h*SUM_{j=1..i-1} K(x_i,x_j)*y_j, each term carrying lambda once,
\* for every lambda.
C10_SweepFormula ==
    VolterraSwept =>
        /\ vo_y[1][2] = right_side_apply(vo_right_side, vo_from)[2]
        /\ \A i \in 1..(vo_i - 1) :
               vo_y[i + 1][2] = SweepValue(i, FirstTerm(i))

\* what the routine computes: the first term of sum_i carries lambda twice
VolterraSweepFormulaLambdaSquared ==
    VolterraSwept =>
        /\ vo_y[1][2] = right_side_apply(vo_right_side, vo_from)[2]
        /\ \A i \in 1..(vo_i - 1) :
               vo_y[i + 1][2] = SweepValue(i, RMul(vo_lambda, FirstTerm(i)))

(***************************************************************************)
(* The integral-equation solvers as whole calls                            *)
(***************************************************************************)
\* mult_mat(a, b, c, n), the first k entries of c
RECURSIVE mult_mat_upto(_, _, _, _)
mult_mat_upto(a, b, n, k) ==
    IF k = 0 THEN <<>>
    ELSE Append(mult_mat_upto(a, b, n, k - 1),
                LET i == (k - 1) \div n
                    j == (k - 1) % n
                    col == [t \in 1..n |-> b[(t - 1) * n + j + 1]]
                IN  row_dot(a, col, n, i + 1, n))

\* mult_mat(a, b, c, n): c = a b
mult_mat(a, b, n) == mult_mat_upto(a, b, n, n * n)

\* mat_transpozed[j * n + i] = mat[i * n + j]
RECURSIVE transpozed_upto(_, _, _)
transpozed_upto(mat, n, k) ==
    IF k = 0 THEN <<>>
    ELSE Append(transpozed_upto(mat, n, k - 1),
                mat[((k - 1) % n) * n + ((k - 1) \div n) + 1])

transpozed(mat, n) == transpozed_upto(mat, n, n * n)

\* the loops that fill mat, its first k entries in row-major order; kind 1
\* stores kernel * step, kind 2 stores -lambda * kernel * step and adds 1.0 on
\* the diagonal
RECURSIVE fredholm_mat_upto(_, _, _, _, _, _, _)
fredholm_mat_upto(kind, kernel, from, step, lambda, n, k) ==
    IF k = 0 THEN Ok(<<>>)
    ELSE LET head == fredholm_mat_upto(kind, kernel, from, step, lambda, n, k - 1)
             i == (k - 1) \div n
             j == (k - 1) % n
             x == RAdd(RMul(R(i), step), from)
             y == RAdd(RMul(R(j), step), from)
             res == kernel_apply(kernel, x, y)
         IN  IF ~IsOk(head) THEN head
             ELSE IF ~IsOk(res) THEN FunctionError
             ELSE IF kind = 1
                  THEN Ok(Append(head[2], RMul(res[2], step)))
                  ELSE Ok(Append(head[2],
                          RAdd(RMul(RNeg(lambda), RMul(res[2], step)),
                               IF i = j THEN R(1) ELSE R(0))))

\* (0..n).map(|i| right_side.apply((i as f64) * step + from)).collect()
RECURSIVE right_side_upto(_, _, _, _)
right_side_upto(right_side, from, step, k) ==
    IF k = 0 THEN Ok(<<>>)
    ELSE LET head == right_side_upto(right_side, from, step, k - 1)
             res == right_side_apply(right_side,
                                     RAdd(RMul(R(k - 1), step), from))
         IN  IF ~IsOk(head) THEN head
             ELSE IF ~IsOk(res) THEN FunctionError
             ELSE Ok(Append(head[2], res[2]))

\* the loop for _ in 0..max_iter_count, with left passes to go
RECURSIVE cg_loop(_, _, _, _, _, _, _, _, _, _, _)
cg_loop(a, inv_b, x, prev_x, f, n, eps, prev_tau, prev_alpha, prev_wkrk, left) ==
    IF left = 0 THEN x
    ELSE LET l == cg_locals(a, inv_b, x, f, n)
             alpha == step_alpha(l.tau, l.wkrk, prev_tau, prev_alpha, prev_wkrk)
         IN  IF converged(l.e, eps) THEN x
             ELSE cg_loop(a, inv_b,
                          three_term_update(x, prev_x, alpha, l.tau, l.wk, n),
                          x, f, n, eps, l.tau, alpha, l.wkrk, left - 1)

\* conjugate_gradient_method as one call: the value left in x
conjugate_gradient_method(a, inv_b, x, f, n, eps, max_iter_count) ==
    LET l == cg_locals(a, inv_b, x, f, n)
    IN  IF converged(l.e, eps) THEN x
        ELSE cg_loop(a, inv_b, two_term_update(x, l.tau, l.wk, n), x, f, n,
                     eps, l.tau, R(1), l.wkrk, max_iter_count)

\* res.iter().enumerate().map(|(i, y)| ((i as f64) * step + from, *y))
RECURSIVE enumerate_grid(_, _, _, _)
enumerate_grid(res, from, step, k) ==
    IF k = 0 THEN <<>>
    ELSE Append(enumerate_grid(res, from, step, k - 1),
                <<RAdd(RMul(R(k - 1), step), from), res[k]>>)

\* the body shared by the two Fredholm solvers, on n nodes
fredholm_system(kind, kernel, right_side, from, to, lambda, n, eps, max_iter_count) ==
    LET step == RDiv(RSub(to, from), RSub(R(n), R(1)))
        mat == fredholm_mat_upto(kind, kernel, from, step, lambda, n, n * n)
        g == right_side_upto(right_side, from, step, n)
    IN  IF ~IsOk(mat) THEN mat
        ELSE IF ~IsOk(g) THEN g
        ELSE LET mat_transpozed == transpozed(mat[2], n)
                 a == mult_mat(mat_transpozed, mat[2], n)
                 f == apply_mat(mat_transpozed, g[2], n)
                 res == conjugate_gradient_method(a, Identity(n), Zero(n), f,
                                                  n, eps, max_iter_count)
             IN  Ok(from_table(enumerate_grid(res, from, step, n)))

\* FredholmFirstKindSystemOfEquations::new(eps, n, max_iter_count).solve(..)
fredholm_1st_solve(kernel, right_side, from, to, n, eps, max_iter_count) ==
    fredholm_system(1, kernel, right_side, from, to, R(0), n + 1, eps,
                    max_iter_count)

\* fredholm_2nd_system(kernel, right_side, from, to, lambda, n, eps, ..)
fredholm_2nd_system(kernel, right_side, from, to, lambda, n, eps, max_iter_count) ==
    fredholm_system(2, kernel, right_side, from, to, lambda, n, eps,
                    max_iter_count)

\* the loop for i in 1..n of the Volterra sweep, from pass i on
RECURSIVE volterra_sweep(_, _, _, _, _, _, _, _)
volterra_sweep(kernel, right_side, from, step, lambda, y, i, n) ==
    IF i >= n THEN Ok(from_table(y))
    ELSE LET yi == sweep_y(kernel, right_side, from, step, lambda, y, i)
         IN  IF ~IsOk(yi) THEN yi
             ELSE volterra_sweep(kernel, right_side, from, step, lambda,
                                 [y EXCEPT ![i + 1] = <<y[i + 1][1], yi[2]>>],
                                 i + 1, n)

\* volterra_2nd_system(kernel, right_side, from, to, lambda, n)
volterra_2nd_system(kernel, right_side, from, to, lambda, n) ==
    LET step == grid_step("volterra_2nd_system", from, to, n)
        y == grid(from, step, n)
        g0 == right_side_apply(right_side, from)
    IN  IF ~IsOk(g0) THEN FunctionError
        ELSE volterra_sweep(kernel, right_side, from, step, lambda,
                            [y EXCEPT ![1] = <<y[1][1], g0[2]>>], 1, n)

\* inputs
Solvers == {"fredholm_1st", "fredholm_2nd", "volterra_2nd"}
LowerLimits == {R(-1), R(0)}
\* only the two-term step is run: a further pass takes the exact numerators
\* past the 32-bit range of the model checker
IterCaps == {0}

InitIntegralEq ==
    /\ ie_solver \in Solvers
    /\ ie_kernel \in Kernels
    /\ ie_right_side \in RightSides
    /\ ie_from \in LowerLimits
    /\ ie_to \in UpperLimits
    /\ ie_lambda \in {R(1), Q(1, 2)}
    /\ ie_n \in 2..MaxGridN
    /\ ie_eps = Q(1, 10)
    /\ ie_max_iter_count \in IterCaps
    /\ ie_result = NoResult
    /\ ie_pc = "start"
    /\ IdleExceptIntegralEq

ieInputs ==
    <<ie_solver, ie_kernel, ie_right_side, ie_from, ie_to, ie_lambda, ie_n,
      ie_eps, ie_max_iter_count>>

\* FredholmFirstKindSystemOfEquations::new(eps, n, max_iter_count)
\*     .solve(kernel, right_side, from, to)
SolveFredholm1st ==
    /\ ie_pc = "start"
    /\ ie_solver = "fredholm_1st"
    /\ ie_result' = fredholm_1st_solve(ie_kernel, ie_right_side, ie_from,
                                       ie_to, ie_n, ie_eps, ie_max_iter_count)
    /\ ie_pc' = "done"
    /\ UNCHANGED ieInputs
    /\ UNCHANGED exceptIntegralEq

\* fredholm_2nd_system(kernel, right_side, from, to, lambda, n, eps, cap)
SolveFredholm2nd ==
    /\ ie_pc = "start"
    /\ ie_solver = "fredholm_2nd"
    /\ ie_result' = fredholm_2nd_system(ie_kernel, ie_right_side, ie_from,
                                        ie_to, ie_lambda, ie_n, ie_eps,
                                        ie_max_iter_count)
    /\ ie_pc' = "done"
    /\ UNCHANGED ieInputs
    /\ UNCHANGED exceptIntegralEq

\* volterra_2nd_system(kernel, right_side, from, to, lambda, n)
SolveVolterra2nd ==
    /\ ie_pc = "start"
    /\ ie_solver = "volterra_2nd"
    /\ ie_result' = volterra_2nd_system(ie_kernel, ie_right_side, ie_from,
                                        ie_to, ie_lambda, ie_n)
    /\ ie_pc' = "done"
    /\ UNCHANGED ieInputs
    /\ UNCHANGED exceptIntegralEq

NextIntegralEq == SolveFredholm1st \/ SolveFredholm2nd \/ SolveVolterra2nd

SpecIntegralEq == InitIntegralEq /\ [][NextIntegralEq]_vars

(***************************************************************************)
(* Claims about the grids of the integral-equation solvers                 *)
(***************************************************************************)
Solved == ie_pc = "done" /\ IsOk(ie_result)

\* the table has exactly n samples, at from + i * (to - from) / (n - 1)
UniformGrid(table, from, to, n) ==
    /\ Len(table) = n
    /\ \A i \in 0..(n - 1) :
           table[i + 1][1] =
               RAdd(from, RMul(R(i), RDiv(RSub(to, from), R(n - 1))))

\* C11: asked for N >= 2 points on [a, b], each of the three solvers returns
\* a table of exactly N samples at x_i = a + i*(b-a)/(N-1), the first at a
\* and the last at b.
C11_GridOfNPoints ==
    Solved =>
        /\ UniformGrid(ie_result[2].sorted_table, ie_from, ie_to, ie_n)
        /\ ie_result[2].sorted_table[1][1] = ie_from
        /\ ie_result[2].sorted_table[Len(ie_result[2].sorted_table)][1] = ie_to

\* what holds: the second-kind solvers return N samples, the first-kind
\* solver N + 1 (its constructor stores n + 1), each grid uniform from a to b
GridOfStoredCount ==
    Solved =>
        UniformGrid(ie_result[2].sorted_table, ie_from, ie_to,
                    IF ie_solver = "fredholm_1st" THEN ie_n + 1 ELSE ie_n)

(***************************************************************************)
(* golden_ratio_min                                                        *)
(***************************************************************************)
ItersEnded(min, width) == <<"Err", "ItersEnded", min, width>>
IsItersEnded(res) == res[1] = "Err" /\ res[2] = "ItersEnded"

\* F(v), with v computed once
Once(v, F(_)) == CHOOSE r \in {F(e) : e \in {v}} : TRUE

\* SUM_k max(0, c_k(x))^2 over the first k constraints of a penalty function
RECURSIVE func_apply(_, _)
RECURSIVE penalty_sum(_, _, _)
penalty_sum(constraints, x, k) ==
    IF k = 0 THEN Ok(R(0))
    ELSE Once(penalty_sum(constraints, x, k - 1), LAMBDA acc :
           IF ~IsOk(acc) THEN acc
           ELSE Once(func_apply(constraints[k], x), LAMBDA cx :
                  IF ~IsOk(cx) THEN cx
                  ELSE IF RLt(R(0), cx[2])
                  THEN Ok(RAdd(RMul(cx[2], cx[2]), acc[2]))
                  ELSE Ok(acc[2])))

\* f.apply(x) of a FunctionNd: <<"sq", c>> is c * SUM x[i]^2, <<"first">> is
\* x[0], <<"lin", i, c>> is c * x[i], <<"const", c>> is c, and any other
\* closure fails
RECURSIVE sum_sq_upto(_, _)
sum_sq_upto(x, k) ==
    IF k = 0 THEN R(0) ELSE RAdd(sum_sq_upto(x, k - 1), RMul(x[k], x[k]))

funcnd_apply(f, x) ==
    CASE f[1] = "sq" -> Ok(RMul(f[2], sum_sq_upto(x, Len(x))))
      [] f[1] = "first" -> Ok(x[1])
      [] f[1] = "lin" -> Ok(RMul(f[3], x[f[2]]))
      [] f[1] = "const" -> Ok(f[2])
      [] OTHER -> DummyError

\* x[i] + alpha * h[i] for every i, as AlphaFunc::apply stores it
RECURSIVE x_plus_alpha_h_upto(_, _, _, _)
x_plus_alpha_h_upto(x, alpha, h, k) ==
    IF k = 0 THEN <<>>
    ELSE Append(x_plus_alpha_h_upto(x, alpha, h, k - 1),
                RAdd(x[k], RMul(alpha, h[k])))

\* func.apply(x) for the callables handed to the minimisers: a few closures
\* <<"fn", name>>, penalty_min's penalty_func
\* <<"penalty", f, constraints, eps>>, gradients_min's AlphaFunc
\* <<"alpha", f, x, h>>, a polynomial c0 + c1*x + c2*x^2 <<"poly", c0, c1, c2>>
\* a closure <<"from", lo, g>> that is g for x >= lo and fails below lo, and
\* a closure <<"hole", lo, hi, g>> that is g but fails for lo < x < hi
func_apply(func, x) ==
    CASE func[1] = "fn" ->
           (CASE func[2] = "1" -> Ok(R(1))
              [] func[2] = "x" -> Ok(x)
              [] func[2] = "-x" -> Ok(RNeg(x))
              [] func[2] = "x-1" -> Ok(RSub(x, R(1)))
              [] func[2] = "1-x" -> Ok(RSub(R(1), x))
              [] func[2] = "(x-1)^2" -> Ok(RMul(RSub(x, R(1)), RSub(x, R(1))))
              [] OTHER -> DummyError)
      [] func[1] = "penalty" ->
           Once(penalty_sum(func[3], x, Len(func[3])), LAMBDA sum :
             IF ~IsOk(sum) THEN sum
             ELSE Once(func_apply(func[2], x), LAMBDA y :
                    IF ~IsOk(y) THEN y
                    ELSE Ok(RAdd(y[2], RDiv(sum[2], func[4])))))
      [] func[1] = "poly" ->
           Ok(RAdd(func[2], RMul(x, RAdd(func[3], RMul(x, func[4])))))
      [] func[1] = "from" ->
           IF RLt(x, func[2]) THEN DummyError ELSE func_apply(func[3], x)
      [] func[1] = "hole" ->
           IF RLt(func[2], x) /\ RLt(x, func[3]) THEN DummyError
           ELSE func_apply(func[4], x)
      [] func[1] = "alpha" ->
           funcnd_apply(func[2],
                        x_plus_alpha_h_upto(func[3], x, func[4], Len(func[3])))
      [] OTHER -> DummyError

\* a_coef = (3.0 - 5.0f64.sqrt()) * 0.5 and b_coef = (-1.0 + 5.0f64.sqrt())
\* * 0.5, rounded to the ratios 3/8 and 5/8 of Fibonacci numbers (as in the
\* code, their sum is 1)
a_coef == Q(3, 8)
b_coef == Q(5, 8)

RMax(a, b) == IF RLt(a, b) THEN b ELSE a

\* the two probes of one pass: x2 and the final x1
golden_probes(a, b) ==
    LET x1 == RAdd(RMul(a, a_coef), RMul(b, b_coef))
        x2 == RMax(RSub(RAdd(a, b), x1), x1)
    IN  [x1 |-> RSub(RAdd(a, b), x2), x2 |-> x2]

\* the four tests of the loop body taken one after the other, each on the
\* values the one before left
\* the first test with <= in place of <
shrink_a_min_nonstrict(t) ==
    IF RLe(t.f_a, t.f_x1) /\ RLe(t.f_a, t.f_x2) /\ RLe(t.f_a, t.f_b)
    THEN [t EXCEPT !.b = t.x1, !.f_b = t.f_x1] ELSE t

shrink_a_min(t) ==
    IF RLt(t.f_a, t.f_x1) /\ RLt(t.f_a, t.f_x2) /\ RLt(t.f_a, t.f_b)
    THEN [t EXCEPT !.b = t.x1, !.f_b = t.f_x1] ELSE t

shrink_b_min(t) ==
    IF RLt(t.f_b, t.f_x1) /\ RLt(t.f_b, t.f_x2) /\ RLt(t.f_b, t.f_a)
    THEN [t EXCEPT !.a = t.x2, !.f_a = t.f_x2] ELSE t

\* the third test moving a to x1 in place of b to x2
shrink_x1_min_moves_a(t) ==
    IF RLt(t.f_x1, t.f_a) /\ RLt(t.f_x1, t.f_x2) /\ RLt(t.f_x1, t.f_b)
    THEN [t EXCEPT !.a = t.x1, !.f_a = t.f_x1] ELSE t

shrink_x1_min(t) ==
    IF RLt(t.f_x1, t.f_a) /\ RLt(t.f_x1, t.f_x2) /\ RLt(t.f_x1, t.f_b)
    THEN [t EXCEPT !.b = t.x2, !.f_b = t.f_x2] ELSE t

shrink_x2_min(t) ==
    IF RLt(t.f_x2, t.f_a) /\ RLt(t.f_x2, t.f_x1) /\ RLt(t.f_x2, t.f_b)
    THEN [t EXCEPT !.a = t.x1, !.f_a = t.f_x1] ELSE t

\* one pass of the loop body after the width test: the new a, b, f_a, f_b,
\* or the error of func
golden_step(func, a, b, f_a, f_b) ==
    LET p == golden_probes(a, b)
        f_x1 == func_apply(func, p.x1)
        f_x2 == func_apply(func, p.x2)
    IN  IF ~IsOk(f_x1) \/ ~IsOk(f_x2) THEN FunctionError
        ELSE Ok(shrink_x2_min(shrink_x1_min(shrink_b_min(shrink_a_min(
                 [a |-> a, b |-> b, f_a |-> f_a, f_b |-> f_b,
                  x1 |-> p.x1, x2 |-> p.x2,
                  f_x1 |-> f_x1[2], f_x2 |-> f_x2[2]])))))

\* (a - b).abs() < min_width
narrow(a, b, min_width) == RLt(RAbs(RSub(a, b)), min_width)

Minimum1d(x, y) == [x |-> x, y |-> y]

\* the loop for _ in 0..max_iter_count with left passes to go; last is the
\* argument of the latest func.apply
RECURSIVE golden_loop(_, _, _, _, _, _, _, _)
golden_loop(func, a, b, f_a, f_b, min_width, left, last) ==
    IF left = 0
    THEN [res |-> ItersEnded(Minimum1d(a, f_a), RAbs(RSub(b, a))),
          last |-> last]
    ELSE IF narrow(a, b, min_width)
    THEN [res |-> Ok(Minimum1d(a, f_a)), last |-> last]
    ELSE LET st == golden_step(func, a, b, f_a, f_b)
         IN  IF ~IsOk(st)
             THEN [res |-> FunctionError, last |-> golden_probes(a, b).x2]
             ELSE golden_loop(func, st[2].a, st[2].b, st[2].f_a, st[2].f_b,
                              min_width, left - 1, st[2].x2)

\* golden_ratio_min(from, to, func, min_width, max_iter_count) as one call
golden_ratio_min(from, to, func, min_width, max_iter_count) ==
    LET a == RMin(from, to)
        b == RMax(from, to)
        f_a == func_apply(func, a)
        f_b == func_apply(func, b)
    IN  IF ~IsOk(f_a) THEN [res |-> FunctionError, last |-> a]
        ELSE IF ~IsOk(f_b) THEN [res |-> FunctionError, last |-> b]
        ELSE golden_loop(func, a, b, f_a[2], f_b[2], min_width,
                         max_iter_count, b)

\* inputs
GoldenFuncs ==
    {<<"fn", name>> : name \in {"1", "x", "-x", "(x-1)^2", "undefined"}}
      \cup {<<"poly", R(0), R(-1), R(1)>>, <<"poly", R(0), R(-3), R(1)>>}
GoldenFroms == {R(0), R(2)}
GoldenTos == {R(0), R(1), R(2)}
GoldenWidths == {Q(1, 2), R(1), R(3)}

\* the entry of golden_ratio_min
InitGolden ==
    /\ gr_func \in GoldenFuncs
    /\ gr_from \in GoldenFroms
    /\ gr_to \in GoldenTos
    /\ gr_min_width \in GoldenWidths
    /\ gr_max_iter_count \in 0..MaxGoldenIter
    /\ gr_a = R(0)
    /\ gr_b = R(0)
    /\ gr_f_a = R(0)
    /\ gr_f_b = R(0)
    /\ gr_iter = 0
    /\ gr_result = NoResult
    /\ gr_pc = "start"
    /\ IdleExceptGolden

grInputs == <<gr_func, gr_from, gr_to, gr_min_width, gr_max_iter_count>>

\* a, b, f_a and f_b before the loop
GoldenStart ==
    /\ gr_pc = "start"
    /\ \E a \in {RMin(gr_from, gr_to)} : \E b \in {RMax(gr_from, gr_to)} :
       \E f_a \in {func_apply(gr_func, a)} : \E f_b \in {func_apply(gr_func, b)} :
        /\ gr_a' = a
        /\ gr_b' = b
        /\ IF IsOk(f_a) /\ IsOk(f_b)
           THEN /\ gr_f_a' = f_a[2]
                /\ gr_f_b' = f_b[2]
                /\ gr_pc' = "loop"
                /\ UNCHANGED gr_result
           ELSE /\ gr_result' = FunctionError
                /\ gr_pc' = "done"
                /\ UNCHANGED <<gr_f_a, gr_f_b>>
    /\ UNCHANGED <<grInputs, gr_iter>>
    /\ UNCHANGED exceptGolden

\* if (a - b).abs() < min_width { return Ok(Minimum1d { x: a, y: f_a }); }
GoldenReturn ==
    /\ gr_pc = "loop"
    /\ gr_iter < gr_max_iter_count
    /\ narrow(gr_a, gr_b, gr_min_width)
    /\ gr_result' = Ok(Minimum1d(gr_a, gr_f_a))
    /\ gr_pc' = "done"
    /\ UNCHANGED <<grInputs, gr_a, gr_b, gr_f_a, gr_f_b, gr_iter>>
    /\ UNCHANGED exceptGolden

\* the rest of one pass of the loop body
GoldenStep ==
    /\ gr_pc = "loop"
    /\ gr_iter < gr_max_iter_count
    /\ ~narrow(gr_a, gr_b, gr_min_width)
    /\ \E st \in {golden_step(gr_func, gr_a, gr_b, gr_f_a, gr_f_b)} :
        IF IsOk(st)
        THEN /\ gr_a' = st[2].a
             /\ gr_b' = st[2].b
             /\ gr_f_a' = st[2].f_a
             /\ gr_f_b' = st[2].f_b
             /\ gr_iter' = gr_iter + 1
             /\ UNCHANGED <<gr_result, gr_pc>>
        ELSE /\ gr_result' = st
             /\ gr_pc' = "done"
             /\ UNCHANGED <<gr_a, gr_b, gr_f_a, gr_f_b, gr_iter>>
    /\ UNCHANGED grInputs
    /\ UNCHANGED exceptGolden

\* Err(Error::ItersEnded(Minimum1d { x: a, y: f_a }, (b - a).abs()))
GoldenItersEnded ==
    /\ gr_pc = "loop"
    /\ gr_iter = gr_max_iter_count
    /\ gr_result' = ItersEnded(Minimum1d(gr_a, gr_f_a), RAbs(RSub(gr_b, gr_a)))
    /\ gr_pc' = "done"
    /\ UNCHANGED <<grInputs, gr_a, gr_b, gr_f_a, gr_f_b, gr_iter>>
    /\ UNCHANGED exceptGolden

NextGolden == GoldenStart \/ GoldenReturn \/ GoldenStep \/ GoldenItersEnded

SpecGolden == InitGolden /\ [][NextGolden]_vars

(***************************************************************************)
(* Claims about golden_ratio_min                                           *)
(***************************************************************************)
\* the search has stopped without an error of func
GoldenStopped == gr_pc = "done" /\ gr_result # FunctionError

\* C12: when the search stops with |b - a| < min_width the result is
\* Ok(Minimum1d{x: a, y: f(a)}), and every ItersEnded(_, w) has
\* w >= min_width.
C12_NarrowBracketIsOk ==
    GoldenStopped =>
        /\ narrow(gr_a, gr_b, gr_min_width)
           => gr_result = Ok(Minimum1d(gr_a, func_apply(gr_func, gr_a)[2]))
        /\ IsItersEnded(gr_result) => RLe(gr_min_width, gr_result[4])

\* what holds: the width is tested only before a pass, so an Ok result has a
\* narrow bracket, and the state machine agrees with the routine as one call
GoldenOkIsNarrow ==
    GoldenStopped =>
        /\ IsOk(gr_result) => narrow(gr_a, gr_b, gr_min_width)
        /\ gr_result = golden_ratio_min(gr_from, gr_to, gr_func, gr_min_width,
                                        gr_max_iter_count).res

\* C13: on success (x*, y*) with final bracket [a, b], y* = f(x*) and y* is
\* at most f(a) and at most f(b), for any objective.
C13_ResultBelowEndpoints ==
    gr_pc = "done" /\ IsOk(gr_result) =>
        /\ gr_result[2].y = func_apply(gr_func, gr_result[2].x)[2]
        /\ RLe(gr_result[2].y, func_apply(gr_func, gr_a)[2])
        /\ RLe(gr_result[2].y, func_apply(gr_func, gr_b)[2])

(***************************************************************************)
(* gradients_min (src/min_find/src/gradients_min.rs)                       *)
(***************************************************************************)
SizeMismatch == <<"Err", "SizeMismatch">>
MinimumNd(x, y) == [x |-> x, y |-> y]

\* step.sqrt(), kept as the root of an exact value
Sqrt(v) == <<"sqrt", v>>

\* -grad[i].apply(x) for i < k, or the first failure
RECURSIVE negated_grad(_, _, _)
negated_grad(grad, x, k) ==
    IF k = 0 THEN Ok(<<>>)
    ELSE LET acc == negated_grad(grad, x, k - 1)
             y == funcnd_apply(grad[k], x)
         IN  IF ~IsOk(acc) THEN acc
             ELSE IF ~IsOk(y) THEN y
             ELSE Ok(Append(acc[2], RNeg(y[2])))

\* the AlphaFunc of one outer pass
AlphaFunc(f, x, h) == <<"alpha", f, x, h>>

\* inputs: an objective with its gradient and a starting point
GradProblem(f, grad, x0) == [f |-> f, grad |-> grad, x0 |-> x0]
GradProblems ==
    {GradProblem(<<"sq", c>>, <<<<"lin", 1, RMul(R(2), c)>>>>, <<x>>) :
        c \in {Q(1, 2), Q(3, 4), R(1)}, x \in {R(0), R(1), R(2)}}
    \cup {GradProblem(<<"sq", Q(3, 4)>>,
                      <<<<"lin", 1, Q(3, 2)>>, <<"lin", 2, Q(3, 2)>>>>,
                      <<R(1), R(-1)>>),
          GradProblem(<<"first">>, <<<<"const", R(1)>>>>, <<R(1)>>),
          GradProblem(<<"first">>, <<<<"const", R(1)>>, <<"const", R(0)>>>>,
                      <<R(1), R(2)>>),
          GradProblem(<<"undefined">>, <<<<"lin", 1, R(1)>>>>, <<R(1)>>),
          GradProblem(<<"sq", Q(1, 2)>>, <<<<"undefined">>>>, <<R(1)>>),
          GradProblem(<<"sq", Q(1, 2)>>, <<<<"lin", 1, R(1)>>>>,
                      <<R(1), R(1)>>),
          GradProblem(<<"sq", Q(1, 2)>>,
                      <<<<"lin", 1, R(1)>>, <<"lin", 1, R(1)>>>>, <<R(1)>>)}
GradEps == {Q(1, 2), R(1), R(2)}

\* the entry of gradients_min
InitGradients ==
    /\ \E pr \in GradProblems :
        /\ gm_f = pr.f
        /\ gm_grad = pr.grad
        /\ gm_x0 = pr.x0
    /\ gm_eps \in GradEps
    /\ gm_max_iter_count \in 0..MaxGradIter
    /\ gm_x = <<>>
    /\ gm_h = <<>>
    /\ gm_x_plus_alpha_h = <<>>
    /\ gm_alpha_res = NoResult
    /\ gm_step = R(0)
    /\ gm_iter = 0
    /\ gm_result = NoResult
    /\ gm_pc = "start"
    /\ IdleExceptGradients

gmInputs == <<gm_f, gm_grad, gm_x0, gm_eps, gm_max_iter_count>>

\* the size test, the first h, x, x_plus_alpha_h and step
GradStart ==
    /\ gm_pc = "start"
    /\ IF Len(gm_grad) # Len(gm_x0)
       THEN /\ gm_result' = SizeMismatch
            /\ gm_pc' = "done"
            /\ UNCHANGED <<gm_x, gm_h, gm_x_plus_alpha_h>>
       ELSE \E h \in {negated_grad(gm_grad, gm_x0, Len(gm_x0))} :
            IF IsOk(h)
            THEN /\ gm_h' = h[2]
                 /\ gm_x' = gm_x0
                 /\ gm_x_plus_alpha_h' = gm_x0
                 /\ gm_pc' = "loop"
                 /\ UNCHANGED gm_result
            ELSE /\ gm_result' = FunctionError
                 /\ gm_pc' = "done"
                 /\ UNCHANGED <<gm_x, gm_h, gm_x_plus_alpha_h>>
    /\ UNCHANGED <<gmInputs, gm_alpha_res, gm_step, gm_iter>>
    /\ UNCHANGED exceptGradients

\* norm_h, the line search on [0, 1] and step; the buffer keeps the point of
\* the last AlphaFunc::apply of the search
GradLineSearch ==
    /\ gm_pc = "loop"
    /\ gm_iter < gm_max_iter_count
    /\ \E g \in {golden_ratio_min(R(0), R(1), AlphaFunc(gm_f, gm_x, gm_h),
                                  gm_eps, gm_max_iter_count)} :
        /\ gm_alpha_res' = g.res
        /\ gm_x_plus_alpha_h' =
               x_plus_alpha_h_upto(gm_x, g.last, gm_h, Len(gm_x))
        /\ IF IsOk(g.res)
           THEN /\ gm_step' = RMul(RMul(g.res[2].x, g.res[2].x),
                                   sum_sq_upto(gm_h, Len(gm_h)))
                /\ gm_pc' = "test"
                /\ UNCHANGED gm_result
           ELSE /\ gm_result' = FunctionError
                /\ gm_pc' = "done"
                /\ UNCHANGED gm_step
    /\ UNCHANGED <<gmInputs, gm_x, gm_h, gm_iter>>
    /\ UNCHANGED exceptGradients

\* if step < eps * eps { return Ok(..) }, else x and h of the next pass
GradTest ==
    /\ gm_pc = "test"
    /\ IF RLt(gm_step, RMul(gm_eps, gm_eps))
       THEN \E y \in {funcnd_apply(gm_f, gm_x_plus_alpha_h)} :
            /\ gm_result' = IF IsOk(y)
                            THEN Ok(MinimumNd(gm_x_plus_alpha_h, y[2]))
                            ELSE FunctionError
            /\ gm_pc' = "done"
            /\ UNCHANGED <<gm_x, gm_h, gm_iter>>
       ELSE \E h \in {negated_grad(gm_grad, gm_x_plus_alpha_h,
                                   Len(gm_x_plus_alpha_h))} :
            /\ gm_x' = gm_x_plus_alpha_h
            /\ IF IsOk(h)
               THEN /\ gm_h' = h[2]
                    /\ gm_iter' = gm_iter + 1
                    /\ gm_pc' = "loop"
                    /\ UNCHANGED gm_result
               ELSE /\ gm_result' = FunctionError
                    /\ gm_pc' = "done"
                    /\ UNCHANGED <<gm_h, gm_iter>>
    /\ UNCHANGED <<gmInputs, gm_x_plus_alpha_h, gm_alpha_res, gm_step>>
    /\ UNCHANGED exceptGradients

\* Err(Error::ItersEnded(MinimumNd { y: f.apply(&x_plus_alpha_h)?, .. }, ..))
GradItersEnded ==
    /\ gm_pc = "loop"
    /\ gm_iter = gm_max_iter_count
    /\ \E y \in {funcnd_apply(gm_f, gm_x_plus_alpha_h)} :
        gm_result' = IF IsOk(y)
                     THEN ItersEnded(MinimumNd(gm_x_plus_alpha_h, y[2]),
                                     Sqrt(gm_step))
                     ELSE FunctionError
    /\ gm_pc' = "done"
    /\ UNCHANGED <<gmInputs, gm_x, gm_h, gm_x_plus_alpha_h, gm_alpha_res,
                   gm_step, gm_iter>>
    /\ UNCHANGED exceptGradients

NextGradients == GradStart \/ GradLineSearch \/ GradTest \/ GradItersEnded

SpecGradients == InitGradients /\ [][NextGradients]_vars

(***************************************************************************)
(* Claims about gradients_min                                              *)
(***************************************************************************)
\* the line search of the current pass has returned a minimum
GradSearched == gm_pc = "test" \/ (gm_pc = "done" /\ IsOk(gm_result))

\* C14: in every outer step, with alpha the abscissa the line search
\* returned, the candidate is x + alpha * h component-wise; a returned
\* MinimumNd has x equal to that candidate and y = f of it.
C14_CandidateIsXPlusAlphaH ==
    GradSearched =>
        /\ gm_x_plus_alpha_h =
               x_plus_alpha_h_upto(gm_x, gm_alpha_res[2].x, gm_h, Len(gm_x))
        /\ gm_pc = "done" =>
               /\ gm_result[2].x = gm_x_plus_alpha_h
               /\ Ok(gm_result[2].y) = funcnd_apply(gm_f, gm_result[2].x)

\* what the code keeps: the returned point is the buffer and y is f of it
GradReturnsBuffer ==
    gm_pc = "done" /\ IsOk(gm_result) =>
        /\ gm_result[2].x = gm_x_plus_alpha_h
        /\ Ok(gm_result[2].y) = funcnd_apply(gm_f, gm_result[2].x)

\* some callable handed to gradients_min fails
GradCallableFails ==
    \/ gm_f[1] = "undefined"
    \/ \E i \in 1..Len(gm_grad) : gm_grad[i][1] = "undefined"

\* C15: a stop at an iteration cap, the outer one or the line search's,
\* returns ItersEnded; FunctionError is returned only when the objective or
\* a gradient component fails, SizeMismatch only when grad.len() # x0.len().
C15_CapIsItersEnded ==
    gm_pc = "done" =>
        /\ IsItersEnded(gm_alpha_res) => IsItersEnded(gm_result)
        /\ gm_result = FunctionError => GradCallableFails
        /\ gm_result = SizeMismatch => Len(gm_grad) # Len(gm_x0)

\* what the code keeps: the outer cap is reported as ItersEnded, and
\* SizeMismatch means the lengths differ
GradOuterCapIsItersEnded ==
    gm_pc = "done" =>
        /\ (gm_iter = gm_max_iter_count /\ gm_result # FunctionError
            /\ gm_result # SizeMismatch /\ ~IsOk(gm_result))
           => IsItersEnded(gm_result)
        /\ gm_result = SizeMismatch <=> Len(gm_grad) # Len(gm_x0)

(***************************************************************************)
(* penalty_min (src/src/min_find/penalty_min.rs)                           *)
(***************************************************************************)
\* the closure penalty_func of one pass
penalty_func(f, constraints, eps) == <<"penalty", f, constraints, eps>>

\* inputs
PenaltyFuncs == {<<"fn", name>> : name \in {"x", "-x", "(x-1)^2", "undefined"}}
PenaltyConstraints ==
    {<<>>, <<<<"fn", "x-1">>>>, <<<<"fn", "1-x">>>>,
     <<<<"fn", "1-x">>, <<"fn", "x-1">>>>, <<<<"fn", "undefined">>>>}
PenaltyTos == {R(1), R(2)}
PenaltyEps == {Q(1, 2), R(1)}
PenaltySteps == {Q(1, 2), R(1)}

\* the entry of penalty_min, with eps, prev_min and prev_prev_min set
InitPenalty ==
    /\ pm_f \in PenaltyFuncs
    /\ pm_constraints \in PenaltyConstraints
    /\ pm_from = R(0)
    /\ pm_to \in PenaltyTos
    /\ pm_start_eps \in PenaltyEps
    /\ pm_min_step \in PenaltySteps
    /\ pm_max_iter_count \in 0..MaxPenaltyIter
    /\ pm_eps = pm_start_eps
    /\ pm_prev_min = pm_from
    /\ pm_prev_prev_min = R(0)
    /\ pm_iter = 0
    /\ pm_result = NoResult
    /\ pm_pc = "loop"
    /\ IdleExceptPenalty

pmInputs ==
    <<pm_f, pm_constraints, pm_from, pm_to, pm_start_eps, pm_min_step,
      pm_max_iter_count>>

\* one pass of the loop: the auxiliary minimisation, the test against
\* prev_min, and either the return or the halving of eps
PenaltyStep ==
    /\ pm_pc = "loop"
    /\ pm_iter < pm_max_iter_count
    /\ pm_iter' = pm_iter + 1
    /\ \E min \in {golden_ratio_min(pm_from, pm_to,
                       penalty_func(pm_f, pm_constraints, pm_eps),
                       pm_min_step, pm_max_iter_count).res} :
        IF ~IsOk(min)
        THEN /\ pm_result' = FunctionError
             /\ pm_pc' = "done"
             /\ UNCHANGED <<pm_eps, pm_prev_min, pm_prev_prev_min>>
        ELSE IF RLt(RAbs(RSub(pm_prev_min, min[2].x)), pm_min_step)
        THEN \E y \in {func_apply(pm_f, min[2].x)} :
             /\ pm_result' = IF IsOk(y) THEN Ok(Minimum1d(min[2].x, y[2]))
                             ELSE FunctionError
             /\ pm_pc' = "done"
             /\ UNCHANGED <<pm_eps, pm_prev_min, pm_prev_prev_min>>
        ELSE /\ pm_eps' = RMul(pm_eps, Q(1, 2))
             /\ pm_prev_prev_min' = pm_prev_min
             /\ pm_prev_min' = min[2].x
             /\ UNCHANGED <<pm_result, pm_pc>>
    /\ UNCHANGED pmInputs
    /\ UNCHANGED exceptPenalty

\* Err(Error::ItersEnded(Minimum1d { x: prev_min, y: f.apply(prev_min)? }, ..))
PenaltyItersEnded ==
    /\ pm_pc = "loop"
    /\ pm_iter = pm_max_iter_count
    /\ \E y \in {func_apply(pm_f, pm_prev_min)} :
        pm_result' = IF IsOk(y)
                     THEN ItersEnded(Minimum1d(pm_prev_min, y[2]),
                                     RAbs(RSub(pm_prev_min, pm_prev_prev_min)))
                     ELSE FunctionError
    /\ pm_pc' = "done"
    /\ UNCHANGED <<pmInputs, pm_eps, pm_prev_min, pm_prev_prev_min, pm_iter>>
    /\ UNCHANGED exceptPenalty

NextPenalty == PenaltyStep \/ PenaltyItersEnded

SpecPenalty == InitPenalty /\ [][NextPenalty]_vars

(***************************************************************************)
(* Claims about penalty_min                                                *)
(***************************************************************************)
RECURSIVE Pow2(_)
Pow2(k) == IF k = 0 THEN 1 ELSE 2 * Pow2(k - 1)

\* C16: penalty_min returns Ok only after at least two auxiliary
\* minimisations whose minima differ by less than min_step; eps is
\* start_eps / 2^k in outer iteration k; the reported y is f(x).
C16_TwoMinimisationsBeforeOk ==
    /\ pm_pc = "loop" => pm_eps = RDiv(pm_start_eps, R(Pow2(pm_iter)))
    /\ pm_pc = "done" /\ IsOk(pm_result) =>
        /\ pm_iter >= 2
        /\ RLt(RAbs(RSub(pm_prev_min, pm_result[2].x)), pm_min_step)
        /\ Ok(pm_result[2].y) = func_apply(pm_f, pm_result[2].x)

\* what the code keeps: the comparison is with prev_min, which is from in
\* the first pass
PenaltyOkNearPrevMin ==
    /\ pm_pc = "loop" => pm_eps = RDiv(pm_start_eps, R(Pow2(pm_iter)))
    /\ pm_pc = "done" /\ IsOk(pm_result) =>
        /\ pm_iter >= 1
        /\ pm_iter = 1 => pm_prev_min = pm_from
        /\ RLt(RAbs(RSub(pm_prev_min, pm_result[2].x)), pm_min_step)
        /\ Ok(pm_result[2].y) = func_apply(pm_f, pm_result[2].x)

(***************************************************************************)
(* integrate_step (src/src/area_calc/simpson_integrator.rs)                *)
(***************************************************************************)
\* an integrator's state between calls: the caller's n and cached_pts, the
\* result of the call, and the arguments f.apply was called with
Integrator(res, n, cached_pts, evals) ==
    [res |-> res, n |-> n, cached_pts |-> cached_pts, evals |-> evals]
NewIntegrator == Integrator(NoResult, 0, <<>>, <<>>)

\* cached_pts.push(f.apply(x).map_err(..)?) unless an earlier push failed
push_apply(f, x, st) ==
    IF ~IsOk(st.res) THEN st
    ELSE Once(func_apply(f, x), LAMBDA y :
           IF IsOk(y)
           THEN Integrator(Ok(RAdd(st.res[2], y[2])), st.n,
                           Append(st.cached_pts, y[2]), Append(st.evals, x))
           ELSE Integrator(FunctionError, st.n, st.cached_pts,
                           Append(st.evals, x)))

\* the map and try_fold over i in 0..n: f at i * step + from for i < k,
\* pushed and summed until the first failure
RECURSIVE fold_pts(_, _, _, _, _)
fold_pts(f, from, step, k, st) ==
    IF k = 0 THEN st
    ELSE Once(fold_pts(f, from, step, k - 1, st), LAMBDA prev :
           push_apply(f, RAdd(RMul(R(k - 1), step), from), prev))

\* (1..n).map(|i| cached_pts[i]).sum() up to index k (0-based indices)
RECURSIVE cached_sum(_, _)
cached_sum(cached_pts, k) ==
    IF k = 0 THEN R(0)
    ELSE RAdd(cached_sum(cached_pts, k - 1), cached_pts[k + 1])

\* the three pushes of a call with fewer than three cached points
first_pts(f, from, to, st) ==
    Once(push_apply(f, from, Integrator(Ok(R(0)), st.n, st.cached_pts,
                                        st.evals)), LAMBDA s1 :
      Once(push_apply(f, to, s1), LAMBDA s2 :
        push_apply(f, RDiv(RAdd(from, to), R(2)), s2)))

\* integrate_step(f, from, to, n, cached_pts) on the state st
integrate_step(f, from, to, st) ==
    IF Len(st.cached_pts) < 3
    THEN Once(first_pts(f, from, to, st), LAMBDA s3 :
           IF ~IsOk(s3.res) THEN s3
           ELSE Integrator(
                  Ok(RDiv(RMul(RAdd(RAdd(RMul(R(2), s3.cached_pts[1]),
                                         RMul(R(2), s3.cached_pts[2])),
                                    RMul(R(4), s3.cached_pts[3])),
                               RSub(to, from)), R(6))),
                  2, s3.cached_pts, s3.evals))
    ELSE Once(fold_pts(f, from, RDiv(RSub(to, from), R(st.n)), st.n,
                       Integrator(Ok(R(0)), st.n, st.cached_pts, st.evals)),
              LAMBDA s :
           IF ~IsOk(s.res) THEN s
           ELSE Integrator(
                  Ok(RDiv(RMul(RAdd(RAdd(RAdd(RMul(s.res[2], R(4)),
                                              RMul(cached_sum(s.cached_pts,
                                                              st.n - 1),
                                                   R(2))),
                                         s.cached_pts[1]),
                                    s.cached_pts[st.n + 1]),
                               RDiv(RSub(to, from), R(2 * st.n))), R(3))),
                  2 * st.n, s.cached_pts, s.evals))

\* inputs
Integrands ==
    {<<"poly", R(1), R(0), R(0)>>, <<"poly", R(0), R(1), R(0)>>,
     <<"poly", R(0), R(0), R(1)>>, <<"poly", R(1), R(-2), R(1)>>,
     <<"from", R(1), <<"poly", R(0), R(1), R(0)>>>>,
     <<"from", Q(1, 2), <<"poly", R(0), R(1), R(0)>>>>,
     <<"fn", "undefined">>}
SimpsonFroms == {R(0), R(1)}
SimpsonTos == {R(2), R(3), R(4)}

\* the caller's state before the first call: n = 0 and an empty cache
InitSimpson ==
    /\ si_f \in Integrands
    /\ si_from \in SimpsonFroms
    /\ si_to \in SimpsonTos
    /\ si_n = 0
    /\ si_cached_pts = <<>>
    /\ si_evals = <<>>
    /\ si_calls = 0
    /\ si_result = NoResult
    /\ IdleExceptSimpson

siState == Integrator(si_result, si_n, si_cached_pts, si_evals)

\* a call with fewer than three cached points
IntegrateFirst ==
    /\ si_f # <<"none">>
    /\ si_calls < MaxSimpsonCalls
    /\ si_result = NoResult
    /\ Len(si_cached_pts) < 3
    /\ \E st \in {integrate_step(si_f, si_from, si_to, siState)} :
        /\ si_result' = st.res
        /\ si_n' = st.n
        /\ si_cached_pts' = st.cached_pts
        /\ si_evals' = st.evals
    /\ si_calls' = si_calls + 1
    /\ UNCHANGED <<si_f, si_from, si_to>>
    /\ UNCHANGED exceptSimpson

\* a later call, which doubles n
IntegrateDouble ==
    /\ si_calls < MaxSimpsonCalls
    /\ IsOk(si_result)
    /\ Len(si_cached_pts) >= 3
    /\ \E st \in {integrate_step(si_f, si_from, si_to, siState)} :
        /\ si_result' = st.res
        /\ si_n' = st.n
        /\ si_cached_pts' = st.cached_pts
        /\ si_evals' = st.evals
    /\ si_calls' = si_calls + 1
    /\ UNCHANGED <<si_f, si_from, si_to>>
    /\ UNCHANGED exceptSimpson

NextSimpson == IntegrateFirst \/ IntegrateDouble

SpecSimpson == InitSimpson /\ [][NextSimpson]_vars

(***************************************************************************)
(* Claims about integrate_step                                             *)
(***************************************************************************)
\* C18: across successive calls on the same (f, from, to, n, cache) no
\* abscissa is evaluated twice: each call evaluates f only at points whose
\* value is not already in the cache.
C18_NoAbscissaTwice ==
    \A i, j \in 1..Len(si_evals) : si_evals[i] = si_evals[j] => i = j

\* what the code keeps: every successful evaluation is pushed, and after a
\* successful call the cache holds n + 1 values
SimpsonCacheGrows ==
    IsOk(si_result) =>
        /\ Len(si_cached_pts) = Len(si_evals)
        /\ Len(si_cached_pts) = si_n + 1
        /\ \A i \in 1..Len(si_evals) :
               Ok(si_cached_pts[i]) = func_apply(si_f, si_evals[i])

(***************************************************************************)
(* root (src/src/area_calc/secant_method_root.rs)                          *)
(***************************************************************************)
RootError(kind) == <<"Err", "RootError", kind>>
IsRootError(res) == res[1] = "Err" /\ res[2] = "RootError"

\* the closure f of root: f.apply(x) - g.apply(x)
difference(f, g, x) ==
    Once(func_apply(f, x), LAMBDA fx :
      IF ~IsOk(fx) THEN fx
      ELSE Once(func_apply(g, x), LAMBDA gx :
             IF ~IsOk(gx) THEN gx ELSE Ok(RSub(fx[2], gx[2]))))

\* Ok((x, g.apply(x).unwrap()))
root_at(g, x) == Ok(<<x, func_apply(g, x)[2]>>)

\* c is returned: f_c == 0.0, or c is within eps of the end it replaces
\* and f_c.abs() < eps
root_found(a, b, c, f_c, eps) ==
    \/ f_c = R(0)
    \/ /\ RLt(RAbs(RSub(c, IF RLt(R(0), f_c) THEN b ELSE a)), eps)
       /\ RLt(RAbs(f_c), eps)

\* c = (a * f_b - b * f_a) / (f_b - f_a)
secant_point(a, b, f_a, f_b) ==
    RDiv(RSub(RMul(a, f_b), RMul(b, f_a)), RSub(f_b, f_a))

\* the test at the head of a pass of the loop
bad_range(a, b, f_a, f_b) == a = b \/ RLt(R(0), RMul(f_a, f_b))

\* the loop of root with left passes to go
RECURSIVE root_loop(_, _, _, _, _, _, _, _)
root_loop(f, g, a, b, f_a, f_b, eps, left) ==
    IF left = 0 THEN RootError("ItersEnded")
    ELSE IF bad_range(a, b, f_a, f_b) THEN RootError("BadRange")
    ELSE Once(secant_point(a, b, f_a, f_b), LAMBDA c :
           Once(difference(f, g, c), LAMBDA f_c :
             IF ~IsOk(f_c) THEN RootError("FunctionError")
             ELSE IF root_found(a, b, c, f_c[2], eps) THEN root_at(g, c)
             ELSE IF RLt(R(0), f_c[2])
             THEN root_loop(f, g, a, c, f_a, f_c[2], eps, left - 1)
             ELSE root_loop(f, g, c, b, f_c[2], f_b, eps, left - 1)))

\* root never exchanges the ends of the bracket
ordered_bracket_unswapped(from, to, f_a, f_b) ==
    IF RLt(R(0), f_a) /\ RLt(f_b, R(0)) THEN <<from, to, f_a, f_b>>
    ELSE IF RLt(f_a, R(0)) /\ RLt(R(0), f_b) THEN <<from, to, f_a, f_b>>
    ELSE <<>>

\* the signs at the bracket: a, b, f_a, f_b at the entry of the loop, with a
\* and b exchanged for f_a > 0 > f_b; <<>> stands for the return of BadRange
ordered_bracket(from, to, f_a, f_b) ==
    IF RLt(R(0), f_a) /\ RLt(f_b, R(0)) THEN <<to, from, f_b, f_a>>
    ELSE IF RLt(f_a, R(0)) /\ RLt(R(0), f_b) THEN <<from, to, f_a, f_b>>
    ELSE <<>>

root_bracket(f, g, from, to, f_a, f_b, eps, max_iter_count) ==
    Once(ordered_bracket(from, to, f_a, f_b), LAMBDA br :
      IF br = <<>> THEN RootError("BadRange")
      ELSE root_loop(f, g, br[1], br[2], br[3], br[4], eps, max_iter_count))

root(f, g, from, to, eps, max_iter_count) ==
    Once(difference(f, g, from), LAMBDA f_a :
      Once(difference(f, g, to), LAMBDA f_b :
        IF ~IsOk(f_a) \/ ~IsOk(f_b) THEN RootError("FunctionError")
        ELSE IF f_a[2] = R(0) THEN root_at(g, from)
        ELSE IF f_b[2] = R(0) THEN root_at(g, to)
        ELSE root_bracket(f, g, from, to, f_a[2], f_b[2], eps,
                          max_iter_count)))

(***************************************************************************)
(* calc_area (src/src/area_calc/mod.rs)                                    *)
(***************************************************************************)
RootEpsTooBig == <<"Err", "RootEpsTooBig">>
AreaItersEnded == <<"Err", "ItersEnded">>

\* one integrate_step call of calc_smax or calc_smin, added or subtracted
Term(sign, f, from, to) == [sign |-> sign, f |-> f, from |-> from, to |-> to]

\* the first k terms of a closure calc_smax or calc_smin, each on its own
\* n and cache, up to the first failure
RECURSIVE calc_s(_, _, _)
calc_s(terms, sts, k) ==
    IF k = 0 THEN [res |-> Ok(R(0)), sts |-> sts]
    ELSE Once(calc_s(terms, sts, k - 1), LAMBDA prev :
           IF ~IsOk(prev.res) THEN prev
           ELSE Once(integrate_step(terms[k].f, terms[k].from, terms[k].to,
                                    prev.sts[k]), LAMBDA st :
                  IF ~IsOk(st.res)
                  THEN [res |-> FunctionError, sts |-> prev.sts]
                  ELSE [res |-> Ok(RAdd(prev.res[2],
                                        RMul(R(terms[k].sign), st.res[2]))),
                        sts |-> [prev.sts EXCEPT ![k] = st]]))

\* what one pass of the refinement loop decides from smax and smin: a
\* result, or NoResult to go on
refine_test(smax, smin, smax_prev, smin_prev, area_eps) ==
    IF RLt(area_eps, RAbs(RSub(smax, smin))) THEN RootEpsTooBig
    ELSE IF /\ RLt(RAbs(RSub(smax, smax_prev)), area_eps)
            /\ RLt(RAbs(RSub(smin, smin_prev)), area_eps)
    THEN Ok(RDiv(RAdd(smax, smin), R(2)))
    ELSE NoResult

\* the refinement loop shared by both triangles, with left passes to go
RECURSIVE refine(_, _, _, _, _, _, _, _)
refine(tmax, tmin, max_sts, min_sts, smax_prev, smin_prev, area_eps, left) ==
    IF left = 0 THEN AreaItersEnded
    ELSE Once(calc_s(tmax, max_sts, 3), LAMBDA smax :
           IF ~IsOk(smax.res) THEN smax.res
           ELSE Once(calc_s(tmin, min_sts, 3), LAMBDA smin :
                  IF ~IsOk(smin.res) THEN smin.res
                  ELSE Once(refine_test(smax.res[2], smin.res[2], smax_prev,
                                        smin_prev, area_eps), LAMBDA t :
                         IF t # NoResult THEN t
                         ELSE refine(tmax, tmin, smax.sts, smin.sts,
                                     smax.res[2], smin.res[2], area_eps,
                                     left - 1))))

\* smax_prev, smin_prev and the loop
estimate(smax_terms, smin_terms, area_eps, max_iter_count) ==
    Once(calc_s(smax_terms, <<NewIntegrator, NewIntegrator, NewIntegrator>>, 3),
         LAMBDA smax :
      IF ~IsOk(smax.res) THEN smax.res
      ELSE Once(calc_s(smin_terms,
                       <<NewIntegrator, NewIntegrator, NewIntegrator>>, 3),
                LAMBDA smin :
             IF ~IsOk(smin.res) THEN smin.res
             ELSE refine(smax_terms, smin_terms, smax.sts, smin.sts,
                         smax.res[2], smin.res[2], area_eps, max_iter_count)))

\* calc_smax and calc_smin of the top triangle with exchanged curves on the
\* two upper sides
top_terms_exchanged(sides, root_eps) ==
    LET a == sides[1][1]
        b == sides[2][1]
        c == sides[3][1]
        f1 == sides[1][3]
        f3 == sides[2][3]
        f2 == sides[3][3]
        e == root_eps
    IN  [smax |-> <<Term(1, f1, RSub(a, e), RAdd(b, e)),
                    Term(1, f2, RSub(b, e), RAdd(c, e)),
                    Term(-1, f3, RAdd(a, e), RSub(c, e))>>,
         smin |-> <<Term(1, f1, RAdd(a, e), RSub(b, e)),
                    Term(1, f2, RAdd(b, e), RSub(c, e)),
                    Term(-1, f3, RSub(a, e), RAdd(c, e))>>]

\* the integrate_step calls of calc_smax and calc_smin of the top triangle
top_terms(sides, root_eps) ==
    LET a == sides[1][1]
        b == sides[2][1]
        c == sides[3][1]
        f2 == sides[1][3]
        f3 == sides[2][3]
        f1 == sides[3][3]
        e == root_eps
    IN  [smax |-> <<Term(1, f1, RSub(a, e), RAdd(b, e)),
                    Term(1, f2, RSub(b, e), RAdd(c, e)),
                    Term(-1, f3, RAdd(a, e), RSub(c, e))>>,
         smin |-> <<Term(1, f1, RAdd(a, e), RSub(b, e)),
                    Term(1, f2, RAdd(b, e), RSub(c, e)),
                    Term(-1, f3, RSub(a, e), RAdd(c, e))>>]

calc_area_top_triangle(sides, root_eps, area_eps, max_iter_count) ==
    Once(top_terms(sides, root_eps), LAMBDA t :
      estimate(t.smax, t.smin, area_eps, max_iter_count))

\* the integrate_step calls of calc_smax and calc_smin of the bottom triangle
bottom_terms(sides, root_eps) ==
    LET a == sides[1][1]
        b == sides[2][1]
        c == sides[3][1]
        f3 == sides[1][3]
        f1 == sides[2][3]
        f2 == sides[3][3]
        e == root_eps
    IN  [smax |-> <<Term(1, f1, RSub(a, e), RAdd(c, e)),
                    Term(-1, f2, RAdd(a, e), RSub(b, e)),
                    Term(-1, f3, RAdd(b, e), RSub(c, e))>>,
         smin |-> <<Term(1, f1, RAdd(a, e), RSub(c, e)),
                    Term(-1, f2, RSub(a, e), RAdd(b, e)),
                    Term(-1, f3, RSub(b, e), RAdd(c, e))>>]

calc_area_bottom_triangle(sides, root_eps, area_eps, max_iter_count) ==
    Once(bottom_terms(sides, root_eps), LAMBDA t :
      estimate(t.smax, t.smin, area_eps, max_iter_count))

\* the three roots of one pass from the brackets given to calc_area, as
\* sorted sides, or the first RootError
sorted_sides(curves, brackets, root_eps, max_iter_count) ==
    Once(root(curves[1], curves[2], brackets[1][1], brackets[1][2], root_eps,
              max_iter_count), LAMBDA ab :
      IF ~IsOk(ab) THEN ab
      ELSE Once(root(curves[1], curves[3], brackets[2][1], brackets[2][2],
                     root_eps, max_iter_count), LAMBDA ac :
             IF ~IsOk(ac) THEN ac
             ELSE Once(root(curves[2], curves[3], brackets[3][1],
                            brackets[3][2], root_eps, max_iter_count),
                       LAMBDA bc :
                    IF ~IsOk(bc) THEN bc
                    ELSE Ok(SortByX(<<<<ab[2][1], ab[2][2], curves[3]>>,
                                      <<ac[2][1], ac[2][2], curves[2]>>,
                                      <<bc[2][1], bc[2][2], curves[1]>>>>)))))

\* slope1 > slope2
is_top(sides) ==
    LET slope1 == RDiv(RSub(sides[2][2], sides[1][2]),
                       RSub(sides[2][1], sides[1][1]))
        slope2 == RDiv(RSub(sides[3][2], sides[1][2]),
                       RSub(sides[3][1], sides[1][1]))
    IN  RLt(slope2, slope1)

\* slope1 > slope2 chooses the top triangle
area_estimate(sides, root_eps, area_eps, max_iter_count) ==
    IF is_top(sides)
    THEN calc_area_top_triangle(sides, root_eps, area_eps, max_iter_count)
    ELSE calc_area_bottom_triangle(sides, root_eps, area_eps, max_iter_count)

Area(area, sides) ==
    [area |-> area, x12 |-> sides[1][1], x13 |-> sides[2][1],
     x23 |-> sides[3][1], f1 |-> sides[3][3], f2 |-> sides[2][3],
     f3 |-> sides[1][3]]

\* Err(e) if e == Error::RootEpsTooBig || e == Error::ItersEnded
restarts_on_iters_ended_only(e) == e = AreaItersEnded
restarts(e) == e = RootEpsTooBig \/ e = AreaItersEnded

\* inputs: three curves with a bracket for each pairwise intersection
Line(c0, c1) == <<"poly", R(c0), R(c1), R(0)>>
StdBrackets == <<<<R(0), R(2)>>, <<R(-1), R(1)>>, <<R(1), R(3)>>>>
AreaProblem(curves, brackets) == [curves |-> curves, brackets |-> brackets]
\* the bracket of the intersection of two lines of a triangle with the lines
\* u, v, w: <<u, v>> in [0, 2], <<u, w>> in [-1, 1], <<v, w>> in [1, 3]
PairBracket(tri, f, g) ==
    IF {f, g} = {tri[1], tri[2]} THEN <<R(0), R(2)>>
    ELSE IF {f, g} = {tri[1], tri[3]} THEN <<R(-1), R(1)>>
    ELSE <<R(1), R(3)>>

\* the triangle tri handed to calc_area with its curves in the order i, j, k
Reordered(tri, i, j, k) ==
    AreaProblem(<<tri[i], tri[j], tri[k]>>,
                <<PairBracket(tri, tri[i], tri[j]),
                  PairBracket(tri, tri[i], tri[k]),
                  PairBracket(tri, tri[j], tri[k])>>)

Orders == {<<1, 2, 3>>, <<1, 3, 2>>, <<2, 1, 3>>, <<2, 3, 1>>, <<3, 1, 2>>,
           <<3, 2, 1>>}

AreaProblems ==
    {Reordered(tri, o[1], o[2], o[3]) :
        tri \in {<<Line(0, 1), Line(2, -1), Line(0, 0)>>,
                 <<Line(0, -1), Line(-2, 1), Line(0, 0)>>},
        o \in Orders}
    \cup
    {AreaProblem(<<<<"poly", R(2), R(0), R(-1)>>, Line(0, 1), Line(0, -1)>>,
                 <<<<R(1), R(2)>>, <<R(-2), R(-1)>>, <<R(0), R(1)>>>>),
     AreaProblem(<<Line(0, 1), Line(2, -1), Line(0, 0)>>,
                 <<<<R(3), R(4)>>, <<R(-1), R(1)>>, <<R(1), R(3)>>>>),
     AreaProblem(<<<<"fn", "undefined">>, Line(2, -1), Line(0, 0)>>,
                 StdBrackets),
     AreaProblem(<<<<"from", R(0), Line(0, 1)>>, Line(2, -1), Line(0, 0)>>,
                 <<<<R(0), R(2)>>, <<R(0), R(1)>>, <<R(1), R(3)>>>>)}
RootEpsValues == {Q(1, 10), Q(1, 2)}
AreaEpsValues == {Q(1, 2), R(2)}

\* the entry of calc_area, with root_eps = root_start_eps
InitArea ==
    /\ \E pr \in AreaProblems :
        /\ ca_curves = pr.curves
        /\ ca_brackets = pr.brackets
    /\ ca_root_start_eps \in RootEpsValues
    /\ ca_area_eps \in AreaEpsValues
    /\ ca_max_iter_count \in 0..MaxAreaIter
    /\ ca_root_eps = ca_root_start_eps
    /\ ca_iter = 0
    /\ ca_sides = <<>>
    /\ ca_res = NoResult
    /\ ca_result = NoResult
    /\ ca_pc = "roots"
    /\ IdleExceptArea

caInputs ==
    <<ca_curves, ca_brackets, ca_root_start_eps, ca_area_eps,
      ca_max_iter_count>>

\* the three calls of root and the sort of one pass
AreaRoots ==
    /\ ca_pc = "roots"
    /\ ca_iter < ca_max_iter_count
    /\ \E sides \in {sorted_sides(ca_curves, ca_brackets, ca_root_eps,
                                  ca_max_iter_count)} :
        IF IsOk(sides)
        THEN /\ ca_sides' = sides[2]
             /\ ca_pc' = "estimate"
             /\ UNCHANGED ca_result
        ELSE /\ ca_result' = sides
             /\ ca_pc' = "done"
             /\ UNCHANGED ca_sides
    /\ UNCHANGED <<caInputs, ca_root_eps, ca_iter, ca_res>>
    /\ UNCHANGED exceptArea

\* the slopes and the area estimate of the pass
AreaEstimate ==
    /\ ca_pc = "estimate"
    /\ ca_res' = area_estimate(ca_sides, ca_root_eps, ca_area_eps,
                               ca_max_iter_count)
    /\ ca_pc' = "match"
    /\ UNCHANGED <<caInputs, ca_root_eps, ca_iter, ca_sides, ca_result>>
    /\ UNCHANGED exceptArea

\* match res
AreaMatch ==
    /\ ca_pc = "match"
    /\ IF IsOk(ca_res)
       THEN /\ ca_result' = Ok(Area(ca_res[2], ca_sides))
            /\ ca_pc' = "done"
            /\ UNCHANGED <<ca_root_eps, ca_iter>>
       ELSE IF restarts(ca_res)
       THEN /\ ca_root_eps' = RMul(ca_root_eps, Q(1, 10))
            /\ ca_iter' = ca_iter + 1
            /\ ca_pc' = "roots"
            /\ UNCHANGED ca_result
       ELSE /\ ca_result' = ca_res
            /\ ca_pc' = "done"
            /\ UNCHANGED <<ca_root_eps, ca_iter>>
    /\ UNCHANGED <<caInputs, ca_sides, ca_res>>
    /\ UNCHANGED exceptArea

\* Err(Error::ItersEnded) after the loop
AreaLoopEnd ==
    /\ ca_pc = "roots"
    /\ ca_iter = ca_max_iter_count
    /\ ca_result' = AreaItersEnded
    /\ ca_pc' = "done"
    /\ UNCHANGED <<caInputs, ca_root_eps, ca_iter, ca_sides, ca_res>>
    /\ UNCHANGED exceptArea

NextArea == AreaRoots \/ AreaEstimate \/ AreaMatch \/ AreaLoopEnd

SpecArea == InitArea /\ [][NextArea]_vars

(***************************************************************************)
(* Claims about calc_area                                                  *)
(***************************************************************************)
RECURSIVE TenthPow(_)
TenthPow(k) == IF k = 0 THEN R(1) ELSE RMul(TenthPow(k - 1), Q(1, 10))

\* C17: calc_area never returns Err(RootEpsTooBig); every estimate that
\* ends with RootEpsTooBig or ItersEnded multiplies the root tolerance by
\* 0.1 and the roots are recomputed from the original brackets; after
\* max_iter_count restarts the result is Err(ItersEnded); FunctionError and
\* RootError are returned in the pass they occur in.
C17_RestartsNeverSurface ==
    /\ ca_result # RootEpsTooBig
    /\ ca_pc # "idle" =>
           ca_root_eps = RMul(ca_root_start_eps, TenthPow(ca_iter))
    /\ ca_pc \in {"estimate", "match"} =>
           Ok(ca_sides) = sorted_sides(ca_curves, ca_brackets, ca_root_eps,
                                       ca_max_iter_count)
    /\ ca_pc = "roots" /\ ca_iter > 0 => restarts(ca_res)
    /\ ca_result = AreaItersEnded => ca_iter = ca_max_iter_count
    /\ ca_result = FunctionError => ca_res = FunctionError
    /\ IsRootError(ca_result) =>
           ca_result = sorted_sides(ca_curves, ca_brackets, ca_root_eps,
                                    ca_max_iter_count)

\* a pass ended with RootEpsTooBig, the search restarted, and the restarts
\* ran out
C17_Witness ==
    /\ ca_pc = "done"
    /\ ca_result = AreaItersEnded
    /\ ca_res = RootEpsTooBig
    /\ ca_iter >= 1


(***************************************************************************)
(* root, one pass of its loop at a time                                    *)
(***************************************************************************)
RootFs ==
    {Line(0, 1), Line(2, -1), <<"poly", R(-2), R(0), R(1)>>,
     <<"poly", R(2), R(0), R(-1)>>, <<"from", R(1), Line(0, 1)>>,
     <<"hole", R(0), R(1), <<"poly", R(-2), R(0), R(1)>>>>,
     <<"fn", "undefined">>}

RootGs == {Line(0, 0), Line(1, 0), Line(0, -1)}

RootEnds == {R(-1), R(0), R(1), R(2), R(3)}

InitRoot ==
    /\ rt_f \in RootFs
    /\ rt_g \in RootGs
    /\ rt_from \in RootEnds
    /\ rt_to \in RootEnds
    /\ rt_eps \in RootEpsValues
    /\ rt_max_iter_count \in 0..MaxRootIter
    /\ rt_a = rt_from
    /\ rt_b = rt_to
    /\ rt_f_a = R(0)
    /\ rt_f_b = R(0)
    /\ rt_iter = 0
    /\ rt_result = NoResult
    /\ rt_pc = "start"
    /\ IdleExceptRoot

rtInputs == <<rt_f, rt_g, rt_from, rt_to, rt_eps, rt_max_iter_count>>

RootReturn(res) ==
    /\ rt_result' = res
    /\ rt_pc' = "done"

\* f(a) or f(b) fails before the loop
RootStartFails ==
    /\ rt_pc = "start"
    /\ \/ ~IsOk(difference(rt_f, rt_g, rt_from))
       \/ ~IsOk(difference(rt_f, rt_g, rt_to))
    /\ RootReturn(RootError("FunctionError"))
    /\ UNCHANGED <<rtInputs, rt_a, rt_b, rt_f_a, rt_f_b, rt_iter>>
    /\ UNCHANGED exceptRoot

\* an end of the bracket is a root
RootAtEnd ==
    /\ rt_pc = "start"
    /\ \E f_a \in {difference(rt_f, rt_g, rt_from)} :
       \E f_b \in {difference(rt_f, rt_g, rt_to)} :
        /\ IsOk(f_a) /\ IsOk(f_b)
        /\ f_a[2] = R(0) \/ f_b[2] = R(0)
        /\ RootReturn(IF f_a[2] = R(0) THEN root_at(rt_g, rt_from)
                      ELSE root_at(rt_g, rt_to))
        /\ rt_f_a' = f_a[2]
        /\ rt_f_b' = f_b[2]
    /\ UNCHANGED <<rtInputs, rt_a, rt_b, rt_iter>>
    /\ UNCHANGED exceptRoot

\* the signs at the ends are not opposite
RootBadRange ==
    /\ rt_pc = "start"
    /\ \E f_a \in {difference(rt_f, rt_g, rt_from)} :
       \E f_b \in {difference(rt_f, rt_g, rt_to)} :
        /\ IsOk(f_a) /\ IsOk(f_b)
        /\ f_a[2] # R(0) /\ f_b[2] # R(0)
        /\ ordered_bracket(rt_from, rt_to, f_a[2], f_b[2]) = <<>>
        /\ RootReturn(RootError("BadRange"))
        /\ rt_f_a' = f_a[2]
        /\ rt_f_b' = f_b[2]
    /\ UNCHANGED <<rtInputs, rt_a, rt_b, rt_iter>>
    /\ UNCHANGED exceptRoot

\* the bracket is accepted and the loop entered
RootEnterLoop ==
    /\ rt_pc = "start"
    /\ \E f_a \in {difference(rt_f, rt_g, rt_from)} :
       \E f_b \in {difference(rt_f, rt_g, rt_to)} :
        /\ IsOk(f_a) /\ IsOk(f_b)
        /\ f_a[2] # R(0) /\ f_b[2] # R(0)
        /\ \E br \in {ordered_bracket(rt_from, rt_to, f_a[2], f_b[2])} :
            /\ br # <<>>
            /\ rt_a' = br[1]
            /\ rt_b' = br[2]
            /\ rt_f_a' = br[3]
            /\ rt_f_b' = br[4]
    /\ rt_pc' = "loop"
    /\ UNCHANGED <<rtInputs, rt_iter, rt_result>>
    /\ UNCHANGED exceptRoot

\* a pass of the loop returns: the bracket is bad, f(c) fails, or c is
\* accepted
root_pass_returns(f, g, a, b, f_a, f_b, eps) ==
    IF bad_range(a, b, f_a, f_b) THEN TRUE
    ELSE Once(secant_point(a, b, f_a, f_b), LAMBDA c :
           Once(difference(f, g, c), LAMBDA f_c :
             IF ~IsOk(f_c) THEN TRUE ELSE root_found(a, b, c, f_c[2], eps)))

RootLoopReturn ==
    /\ rt_pc = "loop"
    /\ rt_iter < rt_max_iter_count
    /\ root_pass_returns(rt_f, rt_g, rt_a, rt_b, rt_f_a, rt_f_b, rt_eps)
    /\ RootReturn(root_loop(rt_f, rt_g, rt_a, rt_b, rt_f_a, rt_f_b, rt_eps, 1))
    /\ rt_iter' = rt_iter + 1
    /\ UNCHANGED <<rtInputs, rt_a, rt_b, rt_f_a, rt_f_b>>
    /\ UNCHANGED exceptRoot

\* a pass of the loop replaces the end of the bracket where f has the sign
\* of f_c
RootLoopStep ==
    /\ rt_pc = "loop"
    /\ rt_iter < rt_max_iter_count
    /\ ~root_pass_returns(rt_f, rt_g, rt_a, rt_b, rt_f_a, rt_f_b, rt_eps)
    /\ \E c \in {secant_point(rt_a, rt_b, rt_f_a, rt_f_b)} :
       \E f_c \in {difference(rt_f, rt_g, c)} :
        /\ IF RLt(R(0), f_c[2])
           THEN /\ rt_b' = c
                /\ rt_f_b' = f_c[2]
                /\ UNCHANGED <<rt_a, rt_f_a>>
           ELSE /\ rt_a' = c
                /\ rt_f_a' = f_c[2]
                /\ UNCHANGED <<rt_b, rt_f_b>>
    /\ rt_iter' = rt_iter + 1
    /\ UNCHANGED <<rtInputs, rt_result, rt_pc>>
    /\ UNCHANGED exceptRoot

\* the loop ends
RootItersEnded ==
    /\ rt_pc = "loop"
    /\ rt_iter = rt_max_iter_count
    /\ RootReturn(RootError("ItersEnded"))
    /\ UNCHANGED <<rtInputs, rt_a, rt_b, rt_f_a, rt_f_b, rt_iter>>
    /\ UNCHANGED exceptRoot

NextRoot ==
    \/ RootStartFails
    \/ RootAtEnd
    \/ RootBadRange
    \/ RootEnterLoop
    \/ RootLoopReturn
    \/ RootLoopStep
    \/ RootItersEnded

SpecRoot == InitRoot /\ [][NextRoot]_vars

\* f - g at the ends handed to root
d_from == difference(rt_f, rt_g, rt_from)

d_to == difference(rt_f, rt_g, rt_to)

\* C21: root returns BadRange exactly when f - g is nonzero with the same
\* sign at from and at to; in the loop f_a = d(a) < 0 < d(b) = f_b, a # b
\* and the secant point lies strictly between a and b, so BadRange never
\* comes from a pass of the loop; the other results are Ok((c, g(c))),
\* FunctionError, and ItersEnded after max_iter_count passes
C21_BadRangeIffSameSign ==
    /\ rt_pc = "done" =>
        /\ rt_result = RootError("BadRange")
             <=> /\ IsOk(d_from) /\ IsOk(d_to)
                 /\ RLt(R(0), RMul(d_from[2], d_to[2]))
        /\ rt_result = root(rt_f, rt_g, rt_from, rt_to, rt_eps,
                            rt_max_iter_count)
        /\ \/ rt_result \in {RootError("BadRange"), RootError("FunctionError"),
                             RootError("ItersEnded")}
           \/ /\ IsOk(rt_result)
              /\ func_apply(rt_g, rt_result[2][1]) = Ok(rt_result[2][2])
    /\ rt_result = RootError("BadRange") => rt_iter = 0
    /\ rt_result = RootError("ItersEnded") => rt_iter = rt_max_iter_count
    /\ rt_pc = "loop" =>
        /\ difference(rt_f, rt_g, rt_a) = Ok(rt_f_a)
        /\ difference(rt_f, rt_g, rt_b) = Ok(rt_f_b)
        /\ RLt(rt_f_a, R(0)) /\ RLt(R(0), rt_f_b)
        /\ rt_a # rt_b
        /\ \E c \in {secant_point(rt_a, rt_b, rt_f_a, rt_f_b)} :
              RLt(RMin(rt_a, rt_b), c) /\ RLt(c, RMax(rt_a, rt_b))

\* C21 witness: two passes of the loop have moved an end of a bracket that
\* was accepted with its ends exchanged
C21_Witness ==
    /\ rt_pc = "loop"
    /\ rt_iter >= 2
    /\ RLt(rt_b, rt_a)

(***************************************************************************)
(* Claims about one pass of golden_ratio_min                               *)
(***************************************************************************)
\* a pass of the loop goes through its four tests
GoldenPass == gr_pc = "loop" /\ gr_iter' = gr_iter + 1

\* f at the probes of the pass that starts in the current state
gr_x1 == golden_probes(gr_a, gr_b).x1

gr_x2 == golden_probes(gr_a, gr_b).x2

gr_f_x1 == func_apply(gr_func, gr_x1)[2]

gr_f_x2 == func_apply(gr_func, gr_x2)[2]

\* v is below each of the three others
StrictMin(v, o1, o2, o3) == RLt(v, o1) /\ RLt(v, o2) /\ RLt(v, o3)

\* the least of the four values is attained by one of them only
UniqueMin ==
    \/ StrictMin(gr_f_a, gr_f_x1, gr_f_x2, gr_f_b)
    \/ StrictMin(gr_f_b, gr_f_x1, gr_f_x2, gr_f_a)
    \/ StrictMin(gr_f_x1, gr_f_a, gr_f_x2, gr_f_b)
    \/ StrictMin(gr_f_x2, gr_f_a, gr_f_x1, gr_f_b)

\* C22: in a pass with a unique strict minimum among f(a), f(x1), f(x2) and
\* f(b) the end named by the table moves (f(a): b <- x1, f(b): a <- x2,
\* f(x1): b <- x2, f(x2): a <- x1) and the other end stays, f_a and f_b are
\* f at the new ends, and a <= x1 <= x2 <= b, so the bracket does not grow
\* and a <= b is kept
C22_TableEndMoves ==
    [][GoldenPass /\ UniqueMin =>
        /\ StrictMin(gr_f_a, gr_f_x1, gr_f_x2, gr_f_b)
             => gr_b' = gr_x1 /\ gr_a' = gr_a
        /\ StrictMin(gr_f_b, gr_f_x1, gr_f_x2, gr_f_a)
             => gr_a' = gr_x2 /\ gr_b' = gr_b
        /\ StrictMin(gr_f_x1, gr_f_a, gr_f_x2, gr_f_b)
             => gr_b' = gr_x2 /\ gr_a' = gr_a
        /\ StrictMin(gr_f_x2, gr_f_a, gr_f_x1, gr_f_b)
             => gr_a' = gr_x1 /\ gr_b' = gr_b
        /\ func_apply(gr_func, gr_a') = Ok(gr_f_a')
        /\ func_apply(gr_func, gr_b') = Ok(gr_f_b')
        /\ RLe(gr_a, gr_x1) /\ RLe(gr_x1, gr_x2) /\ RLe(gr_x2, gr_b)
        /\ RLe(gr_a, gr_a') /\ RLe(gr_a', gr_b') /\ RLe(gr_b', gr_b)]_vars

\* C22 witness: passes have moved both ends of the bracket, the left one to
\* where f is below f at the start
C22_Witness ==
    /\ gr_pc = "loop"
    /\ gr_iter >= 2
    /\ RLt(RMin(gr_from, gr_to), gr_a)
    /\ RLt(gr_b, RMax(gr_from, gr_to))

\* a pass that starts with a, b, f_a, f_b reaches its four tests, and the
\* least of the four values is attained more than once
TieAt(func, a, b, f_a, f_b, min_width) ==
    /\ ~narrow(a, b, min_width)
    /\ \E p \in {golden_probes(a, b)} :
       \E f_x1 \in {func_apply(func, p.x1)} :
       \E f_x2 \in {func_apply(func, p.x2)} :
        /\ IsOk(f_x1)
        /\ IsOk(f_x2)
        /\ ~StrictMin(f_a, f_x1[2], f_x2[2], f_b)
        /\ ~StrictMin(f_b, f_x1[2], f_x2[2], f_a)
        /\ ~StrictMin(f_x1[2], f_a, f_x2[2], f_b)
        /\ ~StrictMin(f_x2[2], f_a, f_x1[2], f_b)

\* the loop is at a bracket with a tie
TieBracketKept ==
    /\ gr_pc = "loop"
    /\ TieAt(gr_func, gr_a, gr_b, gr_f_a, gr_f_b, gr_min_width)

\* C23: a pass in which the least of f(a), f(x1), f(x2), f(b) is attained
\* more than once changes neither a nor b; the tie is there again in the
\* next pass, and the call ends with ItersEnded carrying that bracket and
\* its width
C23_TieKeepsBracket ==
    [][TieBracketKept =>
        /\ gr_a' = gr_a /\ gr_b' = gr_b
        /\ gr_f_a' = gr_f_a /\ gr_f_b' = gr_f_b
        /\ gr_pc' = "loop" =>
             TieAt(gr_func', gr_a', gr_b', gr_f_a', gr_f_b', gr_min_width')
        /\ gr_pc' = "done" =>
             gr_result' = ItersEnded(Minimum1d(gr_a, gr_f_a),
                                     RAbs(RSub(gr_b, gr_a)))]_vars

\* C23 witness: the call has ended after passes with a tie between values
\* that are not all equal
C23_Witness ==
    /\ gr_pc = "done"
    /\ gr_iter >= 2
    /\ IsItersEnded(gr_result)
    /\ ~narrow(gr_a, gr_b, gr_min_width)
    /\ ~UniqueMin
    /\ gr_f_x1 # gr_f_a

(***************************************************************************)
(* Claims about the value of integrate_step                                *)
(***************************************************************************)
\* the weight of node i of n panels in Simpson's rule: 1 at the ends, 4 at
\* odd nodes, 2 at even interior nodes
simpson_weight(i, n) == IF i = 0 \/ i = n THEN 1 ELSE IF i % 2 = 1 THEN 4 ELSE 2

\* SUM of weight * f(from + i * h) for the nodes 0..k
RECURSIVE simpson_sum(_, _, _, _, _)
simpson_sum(f, from, h, n, k) ==
    Once(RMul(R(simpson_weight(k, n)),
              func_apply(f, RAdd(from, RMul(R(k), h)))[2]), LAMBDA term :
      IF k = 0 THEN term ELSE RAdd(simpson_sum(f, from, h, n, k - 1), term))

\* (h / 3) * [f(x_0) + 4 SUM f(x_odd) + 2 SUM f(x_even) + f(x_n)]
composite_simpson(f, from, to, n) ==
    Once(RDiv(RSub(to, from), R(n)), LAMBDA h :
      RMul(RDiv(h, R(3)), simpson_sum(f, from, h, n, n)))

\* C24: the k-th call on one cache returns the composite Simpson value with
\* 2^k panels
C24_CompositeSimpsonValue ==
    si_calls >= 1 /\ IsOk(si_result) =>
        si_result = Ok(composite_simpson(si_f, si_from, si_to, Pow2(si_calls)))

\* what the first call returns: (2 f(from) + 2 f(to) + 4 f(mid)) * (to -
\* from) / 6
SimpsonFirstValue ==
    si_calls = 1 /\ IsOk(si_result) =>
        si_result =
          Ok(RDiv(RMul(RAdd(RAdd(RMul(R(2), func_apply(si_f, si_from)[2]),
                                 RMul(R(2), func_apply(si_f, si_to)[2])),
                            RMul(R(4), func_apply(si_f,
                                    RDiv(RAdd(si_from, si_to), R(2)))[2])),
                       RSub(si_to, si_from)), R(6)))

(***************************************************************************)
(* Claims about the Area record and the sides of the triangle              *)
(***************************************************************************)
\* the intersection root computes for the curves i and j of calc_area, with
\* the two curves that meet there
Meet(i, j, bracket) ==
    <<root(ca_curves[i], ca_curves[j], bracket[1], bracket[2], ca_root_eps,
           ca_max_iter_count)[2][1],
      {ca_curves[i], ca_curves[j]}>>

Meets ==
    {Meet(1, 2, ca_brackets[1]), Meet(1, 3, ca_brackets[2]),
     Meet(2, 3, ca_brackets[3])}

\* the curve f passes through the computed intersection at x
Through(f, x) == \E m \in Meets : m[1] = x /\ f \in m[2]

\* the term integrates a curve between (root_eps around) two intersections
\* the curve passes through
TermJoinsItsEnds(t) ==
    \E i \in 1..2 : \E j \in (i + 1)..3 :
        /\ t.from \in {RSub(ca_sides[i][1], ca_root_eps),
                       RAdd(ca_sides[i][1], ca_root_eps)}
        /\ t.to \in {RSub(ca_sides[j][1], ca_root_eps),
                     RAdd(ca_sides[j][1], ca_root_eps)}
        /\ Through(t.f, ca_sides[i][1])
        /\ Through(t.f, ca_sides[j][1])
        /\ t.f # ca_sides[i][3]
        /\ t.f # ca_sides[j][3]

\* the terms of the routine calc_area calls for the sides of the pass
chosen_terms ==
    IF is_top(ca_sides) THEN top_terms(ca_sides, ca_root_eps)
    ELSE bottom_terms(ca_sides, ca_root_eps)

\* C25: the Area record has x12 <= x13 <= x23, x12 is the computed
\* intersection of its f1 and f2, x13 of f1 and f3, x23 of f2 and f3, and
\* the top and bottom routines integrate over each sub-interval the curve
\* through both of its end intersections, for every order of the three
\* intersections
C25_AreaRecordConsistent ==
    /\ ca_pc \in {"estimate", "match"} =>
        \A k \in 1..3 :
            /\ TermJoinsItsEnds(chosen_terms.smax[k])
            /\ TermJoinsItsEnds(chosen_terms.smin[k])
    /\ ca_pc = "done" /\ IsOk(ca_result) =>
        \E r \in {ca_result[2]} :
            /\ RLe(r.x12, r.x13) /\ RLe(r.x13, r.x23)
            /\ <<r.x12, {r.f1, r.f2}>> \in Meets
            /\ <<r.x13, {r.f1, r.f3}>> \in Meets
            /\ <<r.x23, {r.f2, r.f3}>> \in Meets
            /\ {r.f1, r.f2, r.f3} = {ca_curves[1], ca_curves[2], ca_curves[3]}

\* C25 witness: an Area record of a top triangle whose leftmost intersection
\* is that of the curves b and c and whose rightmost is that of a and b
C25_Witness ==
    /\ ca_pc = "done"
    /\ IsOk(ca_result)
    /\ is_top(ca_sides)
    /\ ca_result[2].f3 = ca_curves[1]
    /\ ca_result[2].f1 = ca_curves[3]

(***************************************************************************)
(* Spline (src/src/spline/mod.rs)                                          *)
(***************************************************************************)
NoKnownPoints == <<"Err", "NoKnownPoints">>

SplinePointOutOfBounds(x, min, max) == <<"Err", "PointOutOfBounds", x, min, max>>

\* pts[i].0 and pts[i].1 for the 0-based i of the code
PX(pts, i) == pts[i + 1][1]

PY(pts, i) == pts[i + 1][2]

\* (pts[i + 1].1 - pts[i].1) / (pts[i + 1].0 - pts[i].0)
slope(pts, i) ==
    RDiv(RSub(PY(pts, i + 1), PY(pts, i)), RSub(PX(pts, i + 1), PX(pts, i)))

mui(pts, i) ==
    RDiv(RSub(PX(pts, i), PX(pts, i - 1)),
         RSub(PX(pts, i + 1), PX(pts, i - 1)))

lambdai(pts, i) ==
    RDiv(RSub(PX(pts, i + 1), PX(pts, i)),
         RSub(PX(pts, i + 1), PX(pts, i - 1)))

\* the tridiagonal system as calc_spline_params fills it: sub-diagonal a,
\* diagonal b, super-diagonal c, right-hand side d, at 0-based index k
sys_a(pts, k) == IF k = Len(pts) - 2 THEN R(1) ELSE lambdai(pts, k + 1)

sys_b(pts, k) == R(2)

sys_c(pts, k) == IF k = 0 THEN R(1) ELSE mui(pts, k)

sys_d(pts, k) ==
    IF k = 0 THEN RMul(R(3), slope(pts, 0))
    ELSE IF k = Len(pts) - 1 THEN RMul(R(3), slope(pts, Len(pts) - 2))
    ELSE RMul(R(3), RAdd(RMul(mui(pts, k), slope(pts, k)),
                         RMul(lambdai(pts, k), slope(pts, k - 1))))

\* y[i], alpha[i], beta[i] after the forward loop, which runs over
\* 1..n - 1 (exclusive) and leaves index n - 1 at its initial 0.0
RECURSIVE forward(_, _)
forward(pts, i) ==
    IF i = Len(pts) - 1 THEN [y |-> R(0), alpha |-> R(0), beta |-> R(0)]
    ELSE IF i = 0
    THEN [y |-> sys_b(pts, 0),
          alpha |-> RDiv(RNeg(sys_c(pts, 0)), sys_b(pts, 0)),
          beta |-> RDiv(sys_d(pts, 0), sys_b(pts, 0))]
    ELSE Once(forward(pts, i - 1), LAMBDA prev :
           Once(RAdd(sys_b(pts, i), RMul(sys_a(pts, i - 1), prev.alpha)),
                LAMBDA y :
             [y |-> y,
              alpha |-> RDiv(RNeg(sys_c(pts, i)), y),
              beta |-> RDiv(RSub(sys_d(pts, i),
                                 RMul(sys_a(pts, i - 1), prev.beta)), y)]))

\* m[j] after the backward loop, which assigns j = n - 2 down to 1 and
\* leaves m[0] at its initial 0.0
RECURSIVE spline_m(_, _)
spline_m(pts, j) ==
    IF j = Len(pts) - 1 THEN forward(pts, j).beta
    ELSE IF j = 0 THEN R(0)
    ELSE Once(forward(pts, j), LAMBDA fw :
           RAdd(RMul(fw.alpha, spline_m(pts, j + 1)), fw.beta))

RMul3(p, q, r) == RMul(RMul(p, q), r)

RMul4(p, q, r, s) == RMul(RMul3(p, q, r), s)

RSum4(p, q, r, s) == RAdd(RAdd(RAdd(p, q), r), s)

\* the closure of the final map: the coefficients of one interval from its
\* end values a, b, its end nodes c, d and its end derivatives m, n
interval_coefs(a, b, c, d, m, n, div1, div2) ==
    <<RAdd(RDiv(RSum4(RMul4(a, d, d, d),
                      RNeg(RMul(RMul4(R(3), a, c, d), d)),
                      RNeg(RMul4(c, c, c, b)),
                      RMul(RMul4(R(3), d, c, c), b)), div1),
           RDiv(RAdd(RMul4(RNeg(m), c, d, d), RNeg(RMul4(n, d, c, c))),
                div2)),
      RAdd(RDiv(RSum4(RMul4(R(6), a, d, c),
                      RMul4(R(2), b, c, c),
                      RNeg(RMul4(R(2), c, c, b)),
                      RNeg(RMul4(R(6), d, b, c))), div1),
           RDiv(RSum4(RMul3(m, d, d),
                      RMul4(R(2), m, d, c),
                      RMul4(R(2), n, d, c),
                      RMul3(n, c, c)), div2)),
      RAdd(RDiv(RSum4(RMul3(R(-3), a, d),
                      RNeg(RMul3(R(3), a, c)),
                      RMul3(R(3), b, c),
                      RMul3(R(3), d, b)), div1),
           RDiv(RSum4(RMul3(R(-2), m, d),
                      RNeg(RMul(m, c)),
                      RNeg(RMul(n, d)),
                      RNeg(RMul3(R(2), n, c))), div2)),
      RAdd(RDiv(RSub(RMul(R(2), a), RMul(R(2), b)), div1),
           RDiv(RAdd(m, n), div2))>>

coefs_at(pts, i) ==
    Once(RSub(PX(pts, i + 1), PX(pts, i)), LAMBDA w :
      interval_coefs(PY(pts, i), PY(pts, i + 1), PX(pts, i), PX(pts, i + 1),
                     spline_m(pts, i), spline_m(pts, i + 1),
                     RMul3(w, w, w), RMul(w, w)))

RECURSIVE coefs_upto(_, _)
coefs_upto(pts, k) ==
    IF k = 0 THEN <<>>
    ELSE Append(coefs_upto(pts, k - 1), coefs_at(pts, k - 1))

\* defined for two points or more: n - 1 underflows for no point, and
\* pts[1] is out of bounds for one
calc_spline_params(pts) == coefs_upto(pts, Len(pts) - 1)

\* d * x * x * x + c * x * x + b * x + a
cubic(co, x) ==
    RSum4(RMul4(co[4], x, x, x), RMul3(co[3], x, x), RMul(co[2], x), co[1])

\* the first i in 1..pts.len() (exclusive) with pts[i - 1].0 <= arg and
\* pts[i].0 >= arg, from index i on; 0 for none
RECURSIVE host(_, _, _)
host(pts, arg, i) ==
    IF i >= Len(pts) THEN 0
    ELSE IF RLe(PX(pts, i - 1), arg) /\ RGe(PX(pts, i), arg) THEN i
    ELSE host(pts, arg, i + 1)

\* Spline::apply: the polynomial is evaluated at x = pts[i].0
spline_apply(pts, coefs, arg) ==
    IF pts = <<>> THEN NoKnownPoints
    ELSE Once(host(pts, arg, 1), LAMBDA i :
           IF i # 0 THEN Ok(cubic(coefs[i], PX(pts, i)))
           ELSE SplinePointOutOfBounds(arg, PX(pts, 0), PX(pts, Len(pts) - 1)))

SplineXs == {0, 1, 2, 3}

SplineYs == {0, 1, 2}

SplineArgs == {R(-1), R(0), Q(1, 2), R(1), Q(3, 2), R(2), R(3)}

\* node lists with increasing abscissas
KnownPoints ==
    UNION {{p \in [1..n -> {<<R(x), R(y)>> : x \in SplineXs, y \in SplineYs}] :
              \A k \in 1..(n - 1) : RLt(p[k][1], p[k + 1][1])} :
           n \in 0..MaxSplinePts}

InitSpline ==
    /\ sp_pc = "new"
    /\ sp_known \in KnownPoints
    /\ sp_pts = <<>>
    /\ sp_coefs = <<>>
    /\ sp_arg = NaN
    /\ sp_result = NoResult
    /\ IdleExceptSpline

\* Spline::new
SplineNew ==
    /\ sp_pc = "new"
    /\ Len(sp_known) >= 2
    /\ sp_coefs' = calc_spline_params(sp_known)
    /\ sp_pts' = sp_known
    /\ sp_pc' = "built"
    /\ UNCHANGED <<sp_known, sp_arg, sp_result>>
    /\ UNCHANGED exceptSpline

\* Spline::new panics in calc_spline_params for fewer than two points
SplineNewPanics ==
    /\ sp_pc = "new"
    /\ Len(sp_known) < 2
    /\ sp_pc' = "panicked"
    /\ UNCHANGED <<sp_known, sp_pts, sp_coefs, sp_arg, sp_result>>
    /\ UNCHANGED exceptSpline

\* Function::apply of the spline
SplineApply ==
    /\ sp_pc \in {"built", "applied"}
    /\ \E arg \in SplineArgs :
        /\ sp_arg' = arg
        /\ sp_result' = spline_apply(sp_pts, sp_coefs, arg)
    /\ sp_pc' = "applied"
    /\ UNCHANGED <<sp_known, sp_pts, sp_coefs>>
    /\ UNCHANGED exceptSpline

NextSpline == SplineNew \/ SplineNewPanics \/ SplineApply

SpecSpline == InitSpline /\ [][NextSpline]_vars

\* the value at arg of the cubic of the interval apply selected
cubic_at_arg ==
    cubic(sp_coefs[host(sp_pts, sp_arg, 1)], sp_arg)

\* C19: an apply which finds a host interval returns that interval's cubic
\* evaluated at the query argument, and at a node x_i it returns y_i
C19_CubicAtArgument ==
    sp_pc = "applied" /\ IsOk(sp_result) =>
        /\ sp_result = Ok(cubic_at_arg)
        /\ \A k \in 1..Len(sp_pts) :
              sp_arg = sp_pts[k][1] => sp_result = Ok(sp_pts[k][2])

\* what the code returns instead: the cubic at the right end of the host
\* interval, whatever the argument
SplineApplyAtRightNode ==
    sp_pc = "applied" /\ IsOk(sp_result) =>
        sp_result = Ok(cubic(sp_coefs[host(sp_pts, sp_arg, 1)],
                             PX(sp_pts, host(sp_pts, sp_arg, 1))))

\* row k (0-based) of the tridiagonal system holds for the computed m
row_holds(pts, k) ==
    RSum4(IF k = 0 THEN R(0)
          ELSE RMul(sys_a(pts, k - 1), spline_m(pts, k - 1)),
          RMul(sys_b(pts, k), spline_m(pts, k)),
          IF k = Len(pts) - 1 THEN R(0)
          ELSE RMul(sys_c(pts, k), spline_m(pts, k + 1)),
          R(0)) = sys_d(pts, k)

\* C20: the derivative vector m computed for a built spline satisfies all
\* n rows of the tridiagonal system, the first and the last included
C20_ThomasSolvesAllRows ==
    sp_pc = "built" =>
        \A k \in 0..(Len(sp_pts) - 1) : row_holds(sp_pts, k)

\* the two ends of m are never assigned
SplineEndDerivativesZero ==
    sp_pc = "built" =>
        /\ spline_m(sp_pts, 0) = R(0)
        /\ spline_m(sp_pts, Len(sp_pts) - 1) = R(0)

\* C26: building a spline never aborts: Spline::new on no node or one node
\* returns a Spline, and apply on a spline without nodes returns
\* Err(NoKnownPoints)
C26_SplineNeverAborts ==
    /\ sp_pc # "panicked"
    /\ Len(sp_known) < 2 /\ sp_pc # "new" => sp_pts = sp_known
    /\ sp_pc = "applied" /\ sp_pts = <<>> => sp_result = NoKnownPoints

\* what the code does: a Spline value exists only for two nodes or more
SplineBuiltHasTwoNodes ==
    /\ sp_pc \in {"built", "applied"} => Len(sp_pts) >= 2
    /\ sp_pc = "panicked" <=> sp_pc # "new" /\ Len(sp_known) < 2
    /\ sp_result # NoKnownPoints

(***************************************************************************)
(* tokenize (src/src/mathparse/parse.rs)                                   *)
(***************************************************************************)
\* a &str is a sequence of characters; "U+00E9" is a letter of two bytes in
\* UTF-8, every other character of the alphabet is ASCII
WideLetter == "U+00E9"

len_utf8(c) == IF c = WideLetter THEN 2 ELSE 1

is_whitespace(c) == c = " "

Digits == <<"0", "1", "2", "3", "4", "5", "6", "7", "8", "9">>

to_digit(c) ==
    IF \E d \in 1..10 : Digits[d] = c
    THEN (CHOOSE d \in 1..10 : Digits[d] = c) - 1
    ELSE -1

RESERVED_SYMBOLS == {"+", "-", "*", "/", ",", "(", ")"}

Some(v) == <<"Some", v>>

Panicked == <<"panic">>

RECURSIVE trim_start(_)
trim_start(str) ==
    IF str # <<>> /\ is_whitespace(Head(str)) THEN trim_start(Tail(str))
    ELSE str

\* &str[n..] for a byte index n: Some(rest), or a panic when n is not on a
\* character boundary of str
RECURSIVE slice_from(_, _)
slice_from(str, n) ==
    IF n = 0 THEN Some(str)
    ELSE IF str = <<>> \/ len_utf8(Head(str)) > n THEN Panicked
    ELSE slice_from(Tail(str), n - len_utf8(Head(str)))

\* the byte index of character k (1-based) of str
RECURSIVE byte_index(_, _)
byte_index(str, k) ==
    IF k = 1 THEN 0 ELSE byte_index(str, k - 1) + len_utf8(str[k - 1])

\* how many leading characters of str are digits
RECURSIVE digit_count(_)
digit_count(str) ==
    IF str # <<>> /\ to_digit(Head(str)) >= 0 THEN 1 + digit_count(Tail(str))
    ELSE 0

\* the fold acc * 10 + d over the first k characters
RECURSIVE digits_value(_, _)
digits_value(str, k) ==
    IF k = 0 THEN 0 ELSE digits_value(str, k - 1) * 10 + to_digit(str[k])

RECURSIVE Pow10(_)
Pow10(k) == IF k = 0 THEN 1 ELSE 10 * Pow10(k - 1)

\* i + 1 for the byte index i of the last of the first k characters; 0 for
\* k = 0
fold_size(str, k) == IF k = 0 THEN 0 ELSE byte_index(str, k) + 1

read_number(src) ==
    LET str == trim_start(src)
        k == digit_count(str)
        after == slice_from(str, fold_size(str, k))[2]
        next == Tail(after)
        j == digit_count(next)
    IN  IF k = 0 THEN None
        ELSE IF after # <<>> /\ Head(after) = "."
        THEN IF j = 0 THEN None
             ELSE Some(<<RAdd(R(digits_value(str, k)),
                              Q(digits_value(next, j), Pow10(j))),
                         slice_from(next, fold_size(next, j))[2]>>)
        ELSE Some(<<R(digits_value(str, k)), after>>)

\* how many leading characters of str the take_while of read_identifier
\* takes
RECURSIVE identifier_count(_)
identifier_count(str) ==
    IF str # <<>> /\ ~is_whitespace(Head(str)) /\ Head(str) \notin RESERVED_SYMBOLS
    THEN 1 + identifier_count(Tail(str))
    ELSE 0

\* len is one more than the byte index of the last character taken,
\* whatever its width, as in read_identifier with every letter one byte wide
read_identifier_ascii(src) ==
    LET str == trim_start(src)
        k == identifier_count(str)
    IN  IF k = 0 \/ to_digit(str[1]) >= 0 THEN None
        ELSE Some(<<SubSeq(str, 1, k), SubSeq(str, k + 1, Len(str))>>)

\* None, Some((identifier, rest)), or the panic of &src[len..]
read_identifier(src) ==
    LET str == trim_start(src)
        k == identifier_count(str)
        len == fold_size(str, k)
    IN  IF len = 0 \/ to_digit(str[1]) >= 0 THEN None
        ELSE IF slice_from(str, len) = Panicked THEN Panicked
        ELSE Some(<<SubSeq(str, 1, k), slice_from(str, len)[2]>>)

\* the token of a reserved symbol
symbol_token(c) ==
    CASE c = "(" -> OpenBracket
      [] c = ")" -> CloseBracket
      [] c = "," -> Coma
      [] c = "+" -> Plus
      [] c = "-" -> Minus
      [] c = "*" -> Multiply
      [] c = "/" -> Divide

\* one pass of the loop of tokenize on src: a token and the rest, the
\* return of Some or None, or a panic
tokenize_pass(src) ==
    LET str == trim_start(src)
        num == read_number(str)
        id == read_identifier(str)
    IN  IF str # <<>> /\ Head(str) \in RESERVED_SYMBOLS
        THEN [kind |-> "token", token |-> symbol_token(Head(str)),
              next |-> Tail(str)]
        ELSE IF num # None
        THEN [kind |-> "token", token |-> Num(num[2][1]), next |-> num[2][2]]
        ELSE IF id = Panicked
        THEN [kind |-> "panic", token |-> None, next |-> str]
        ELSE IF id # None
        THEN [kind |-> "token", token |-> Identifier(id[2][1]),
              next |-> id[2][2]]
        ELSE IF str = <<>>
        THEN [kind |-> "some", token |-> None, next |-> str]
        ELSE [kind |-> "none", token |-> None, next |-> str]

SrcAlphabet ==
    {"(", ")", ",", "+", "-", "*", "/", "1", ".", "x", " ", WideLetter}

Sources == UNION {[1..n -> SrcAlphabet] : n \in 0..MaxSrcLen}

InitTokenize ==
    /\ tk_input \in Sources
    /\ tk_src = tk_input
    /\ tk_res = <<>>
    /\ tk_result = NoResult
    /\ tk_pc = "loop"
    /\ IdleExceptTokenize

\* a pass that pushes a token
TokenizePush ==
    /\ tk_pc = "loop"
    /\ \E pass \in {tokenize_pass(tk_src)} :
        /\ pass.kind = "token"
        /\ tk_src' = pass.next
        /\ tk_res' = Append(tk_res, pass.token)
    /\ UNCHANGED <<tk_input, tk_result, tk_pc>>
    /\ UNCHANGED exceptTokenize

\* return Some(res)
TokenizeSome ==
    /\ tk_pc = "loop"
    /\ tokenize_pass(tk_src).kind = "some"
    /\ tk_result' = Some(tk_res)
    /\ tk_pc' = "done"
    /\ tk_src' = trim_start(tk_src)
    /\ UNCHANGED <<tk_input, tk_res>>
    /\ UNCHANGED exceptTokenize

\* return None
TokenizeNone ==
    /\ tk_pc = "loop"
    /\ tokenize_pass(tk_src).kind = "none"
    /\ tk_result' = None
    /\ tk_pc' = "done"
    /\ tk_src' = trim_start(tk_src)
    /\ UNCHANGED <<tk_input, tk_res>>
    /\ UNCHANGED exceptTokenize

\* &src[len..] of read_identifier panics
TokenizePanics ==
    /\ tk_pc = "loop"
    /\ tokenize_pass(tk_src).kind = "panic"
    /\ tk_pc' = "panicked"
    /\ tk_src' = trim_start(tk_src)
    /\ UNCHANGED <<tk_input, tk_res, tk_result>>
    /\ UNCHANGED exceptTokenize

NextTokenize == TokenizePush \/ TokenizeSome \/ TokenizeNone \/ TokenizePanics

SpecTokenize == InitTokenize /\ [][NextTokenize]_vars

\* C27: tokenize ends with Some(tokens) or None and never aborts, also for
\* identifiers that contain or end with a character of several bytes, and
\* after an identifier is read what is left of the input starts right after
\* the last character of the identifier
C27_TokenizeNeverAborts ==
    /\ [](tk_pc # "panicked")
    /\ [][tk_pc = "loop" /\ Len(tk_res') = Len(tk_res) + 1
          /\ tk_res'[Len(tk_res')][1] = "Identifier"
          => trim_start(tk_src) = tk_res'[Len(tk_res')][2] \o tk_src']_vars

\* what holds: a pass panics exactly when the identifier it reads ends with
\* a character of more than one byte, and otherwise the rest starts right
\* after the identifier
TokenizePanicsAtWideEnd ==
    /\ tk_pc = "panicked" =>
        \E k \in {identifier_count(tk_src)} :
            k > 0 /\ len_utf8(tk_src[k]) > 1
    /\ tk_pc = "loop" =>
        \/ read_identifier(tk_src) = read_identifier_ascii(tk_src)
        \/ /\ read_identifier(tk_src) = Panicked
           /\ len_utf8(trim_start(tk_src)[identifier_count(trim_start(tk_src))]) > 1

(***************************************************************************)
(* FunctionNd::sample (src/src/common/function.rs)                         *)
(***************************************************************************)
RECURSIVE product_upto(_, _)
product_upto(n, k) == IF k = 0 THEN 1 ELSE product_upto(n, k - 1) * n[k]

total_iter_count(n) == product_upto(n, Len(n))

\* (to - from) / (n as f64 - 1.0) along coordinate i; not finite for n = 1
sample_step(from, to, n, i) == RDiv(RSub(to[i], from[i]), R(n[i] - 1))

\* the inner loop of sample from coordinate i on: the first coordinate that
\* can still grow grows by one, the ones before it go back to 0
RECURSIVE advance(_, _, _)
advance(iter, n, i) ==
    IF i > Len(n) THEN iter
    ELSE IF iter[i] + 1 < n[i] THEN [iter EXCEPT ![i] = @ + 1]
    ELSE advance([iter EXCEPT ![i] = 0], n, i + 1)

\* (iter[i] as f64) * step + from[i] for the first k coordinates
RECURSIVE coords_upto(_, _, _, _, _)
coords_upto(iter, from, to, n, k) ==
    IF k = 0 THEN <<>>
    ELSE Append(coords_upto(iter, from, to, n, k - 1),
                RAdd(RMul(R(iter[k]), sample_step(from, to, n, k)), from[k]))

sample_coords(iter, from, to, n) == coords_upto(iter, from, to, n, Len(n))

SampleDims == 1..2

SampleNs == UNION {[1..d -> 1..MaxSampleN] : d \in SampleDims}

SampleFuncs == {<<"first">>, <<"sq", R(1)>>, <<"fails">>}

Corner(v, d) == [i \in 1..d |-> R(v + i)]

InitSample ==
    /\ sm_f \in SampleFuncs
    /\ sm_n \in SampleNs
    /\ \E lo \in {0, 1}, w \in {2, 6} :
        /\ sm_from = Corner(lo, Len(sm_n))
        /\ sm_to = Corner(lo + w, Len(sm_n))
    /\ sm_iter = [i \in 1..Len(sm_n) |-> 0]
    /\ sm_done = 0
    /\ sm_pts = <<>>
    /\ sm_result = NoResult
    /\ sm_pc = "loop"
    /\ IdleExceptSample

\* one pass of the outer loop whose apply succeeds: the index moves on, then
\* the row of the new index is pushed
SamplePass ==
    /\ sm_pc = "loop"
    /\ sm_done < total_iter_count(sm_n)
    /\ \E it \in {advance(sm_iter, sm_n, 1)} :
        \E coords \in {sample_coords(it, sm_from, sm_to, sm_n)} :
            /\ IsOk(funcnd_apply(sm_f, coords))
            /\ sm_iter' = it
            /\ sm_pts' = Append(sm_pts, Append(coords, funcnd_apply(sm_f, coords)[2]))
    /\ sm_done' = sm_done + 1
    /\ UNCHANGED <<sm_f, sm_from, sm_to, sm_n, sm_result, sm_pc>>
    /\ UNCHANGED exceptSample

\* one pass of the outer loop whose apply fails: sample returns the error
SampleError ==
    /\ sm_pc = "loop"
    /\ sm_done < total_iter_count(sm_n)
    /\ \E it \in {advance(sm_iter, sm_n, 1)} :
        \E coords \in {sample_coords(it, sm_from, sm_to, sm_n)} :
            /\ ~IsOk(funcnd_apply(sm_f, coords))
            /\ sm_iter' = it
            /\ sm_result' = funcnd_apply(sm_f, coords)
    /\ sm_pc' = "done"
    /\ UNCHANGED <<sm_f, sm_from, sm_to, sm_n, sm_done, sm_pts>>
    /\ UNCHANGED exceptSample

\* Ok(pts) after the last pass
SampleReturn ==
    /\ sm_pc = "loop"
    /\ sm_done = total_iter_count(sm_n)
    /\ sm_result' = Ok(sm_pts)
    /\ sm_pc' = "done"
    /\ UNCHANGED <<sm_f, sm_from, sm_to, sm_n, sm_iter, sm_done, sm_pts>>
    /\ UNCHANGED exceptSample

NextSample == SamplePass \/ SampleError \/ SampleReturn

SpecSample == InitSample /\ [][NextSample]_vars

\* the k-th grid index vector (k from 0) in odometer order from the all-zero
\* index, the first coordinate varying fastest
odometer_index(k, n) ==
    [i \in 1..Len(n) |-> (k \div product_upto(n, i - 1)) % n[i]]

\* the grid node of an index vector: from for the index 0, to for the last
\* index, evenly spaced between
node_of(idx, from, to, n) ==
    [i \in 1..Len(n) |->
        IF idx[i] = 0 THEN from[i]
        ELSE RAdd(from[i], RMul(R(idx[i]), RDiv(RSub(to[i], from[i]), R(n[i] - 1))))]

row_of(f, x) == Append(x, funcnd_apply(f, x)[2])

SampleSucceeds == sm_f # <<"fails">>

\* C30: with every n[i] >= 1 sample emits exactly the product of the n[i]
\* rows, the k-th of them the row of the k-th grid index vector in odometer
\* order starting from the all-zero index (the point from), each row the
\* coordinates followed by the value of the function there
C30_SampleOdometerFromZero ==
    SampleSucceeds =>
        /\ \A k \in 1..Len(sm_pts) :
            sm_pts[k] = row_of(sm_f, node_of(odometer_index(k - 1, sm_n), sm_from, sm_to, sm_n))
        /\ sm_pc = "done" => Len(sm_pts) = total_iter_count(sm_n)

\* what holds: the k-th row is the row of index vector k (not k - 1) modulo
\* the number of nodes, so the all-zero index comes last, and a coordinate
\* with a single node is not a number
SampleStartsAtSecondIndex ==
    SampleSucceeds =>
        /\ \A k \in 1..Len(sm_pts) :
            \E idx \in {odometer_index(k % total_iter_count(sm_n), sm_n)} :
                \A i \in 1..Len(sm_n) :
                    sm_pts[k][i] = IF sm_n[i] = 1 THEN NaN
                                   ELSE RAdd(sm_from[i], RMul(R(idx[i]), RDiv(RSub(sm_to[i], sm_from[i]), R(sm_n[i] - 1))))
        /\ sm_pc = "done" => Len(sm_pts) = total_iter_count(sm_n)

(***************************************************************************)
(* GradientsMinProblemCreator (src/src/problems/gradients_min.rs)          *)
(***************************************************************************)
\* field names: "f", "eps", "max_iter_count", format!("{name}0") and
\* format!("df/d{name}"), each a pair of a prefix and a suffix
PlainField(name) == <<name, "">>

StartField(var) == <<var, "0">>

DerivativeField(var) == <<"df/d", var>>

\* the strings typed into fields; FromStr for f64 and usize and
\* parse + query_vars on them
Contents ==
    {"", "3", "1", "0.00001", "10000", "x+y", "2x", "2y",
     "10pow(y-x*x,2)+pow(1-x,2)", "-40x*y+40pow(x,3)+2x-2", "20y-20*x*x"}

parse_f64(val) ==
    CASE val = "3" -> Some(R(3))
      [] val = "1" -> Some(R(1))
      [] val = "10000" -> Some(R(10000))
      [] val = "0.00001" -> Some(Q(1, 100000))
      [] OTHER -> None

parse_usize(val) ==
    CASE val = "3" -> Some(3)
      [] val = "1" -> Some(1)
      [] val = "10000" -> Some(10000)
      [] OTHER -> None

\* the variables of the expression parse gives for val, None when val does
\* not parse
parsed_vars(val) ==
    CASE val \in {"3", "1", "0.00001", "10000"} -> Some({})
      [] val \in {"x+y", "10pow(y-x*x,2)+pow(1-x,2)", "-40x*y+40pow(x,3)+2x-2",
                  "20y-20*x*x"} -> Some({"x", "y"})
      [] val = "2x" -> Some({"x"})
      [] val = "2y" -> Some({"y"})
      [] OTHER -> None

\* the orders in which a hash set or the keys of a hash map can be iterated
IterationOrders(S) ==
    {o \in [1..Cardinality(S) -> S] : \A i, j \in 1..Cardinality(S) : o[i] = o[j] => i = j}

SeqRange(seq) == {seq[i] : i \in 1..Len(seq)}

\* Form::set
form_set(fields, name, val) ==
    IF name \in DOMAIN fields THEN [fields EXCEPT ![name] = val] ELSE fields

\* Form::add_field for every name of a sequence, in order: the field names
\* and the contents after it
RECURSIVE add_fields(_, _, _)
add_fields(names, fields, new) ==
    IF new = <<>> THEN <<names, fields>>
    ELSE IF Head(new) \in DOMAIN fields THEN add_fields(names, fields, Tail(new))
    ELSE add_fields(Append(names, Head(new)),
                    [n \in DOMAIN fields \cup {Head(new)} |->
                        IF n = Head(new) THEN "" ELSE fields[n]],
                    Tail(new))

StartFields(new_vars) == [i \in 1..Len(new_vars) |-> StartField(new_vars[i])]

DerivativeFields(new_vars) == [i \in 1..Len(new_vars) |-> DerivativeField(new_vars[i])]

BaseFields == <<PlainField("f"), PlainField("eps"), PlainField("max_iter_count")>>

\* validate_expr
validate_expr(val, allowed_vars) ==
    parsed_vars(val) # None /\ parsed_vars(val)[2] \subseteq allowed_vars

\* the match of try_create on one field: TRUE for Ok(_)
field_ok(name, val, ordered_vars) ==
    IF name = PlainField("f") THEN validate_expr(val, SeqRange(ordered_vars))
    ELSE IF name = PlainField("eps") THEN parse_f64(val) # None
    ELSE IF name = PlainField("max_iter_count") THEN parse_usize(val) # None
    ELSE IF name[2] = "0"
    THEN parse_f64(val) # None /\ name[1] \in SeqRange(ordered_vars)
    ELSE IF name[1] = "df/d"
    THEN validate_expr(val, SeqRange(ordered_vars)) /\ name[2] \in SeqRange(ordered_vars)
    ELSE FALSE

\* the errors pushed by the loop of try_create over the fields, in order
RECURSIVE field_errors(_, _, _)
field_errors(names, fields, ordered_vars) ==
    IF names = <<>> THEN <<>>
    ELSE (IF field_ok(Head(names), fields[Head(names)], ordered_vars) THEN <<>>
          ELSE <<Head(names)>>)
         \o field_errors(Tail(names), fields, ordered_vars)

\* the keys of the maps x0 and grad after the loop
x0_keys(names) == {n[1] : n \in {m \in SeqRange(names) : m[2] = "0"}}

grad_keys(names) == {n[2] : n \in {m \in SeqRange(names) : m[2] # "0" /\ m[1] = "df/d"}}

\* the errors pushed after the loop
supply_errors(names, ordered_vars) ==
    (IF grad_keys(names) \subseteq SeqRange(ordered_vars)
        /\ Cardinality(grad_keys(names)) = Len(ordered_vars)
     THEN <<>> ELSE <<"Not all derivatives were supplied">>)
    \o (IF x0_keys(names) \subseteq SeqRange(ordered_vars)
           /\ Cardinality(x0_keys(names)) = Len(ordered_vars)
        THEN <<>> ELSE <<"Not all x0 coordinates were supplied">>)

\* GradientsMinProblemCreator::default
InitCreator ==
    /\ gc_field_names = BaseFields \o DerivativeFields(<<"x", "y">>) \o StartFields(<<"x", "y">>)
    /\ gc_fields = [name \in SeqRange(gc_field_names) |->
                      CASE name = PlainField("f") -> "10pow(y-x*x,2)+pow(1-x,2)"
                        [] name = PlainField("eps") -> "0.00001"
                        [] name = PlainField("max_iter_count") -> "10000"
                        [] name = DerivativeField("x") -> "-40x*y+40pow(x,3)+2x-2"
                        [] name = DerivativeField("y") -> "20y-20*x*x"
                        [] OTHER -> "3"]
    /\ gc_ordered_vars = <<"x", "y">>
    /\ gc_edits = 0
    /\ gc_result = NoResult
    /\ gc_pc = "form"
    /\ IdleExceptCreator

\* set_field("f", val) with a val that parses: the form is built anew for
\* the variables of val, in the order the hash set gives them
CreatorSetFunction ==
    /\ gc_pc = "form"
    /\ gc_edits < MaxEdits
    /\ \E val \in Contents :
        /\ parsed_vars(val) # None
        /\ \E new_vars \in IterationOrders(parsed_vars(val)[2]) :
            \E form \in {add_fields(BaseFields,
                                    [name \in SeqRange(BaseFields) |-> gc_fields[name]],
                                    StartFields(new_vars) \o DerivativeFields(new_vars))} :
                /\ gc_field_names' = form[1]
                /\ gc_fields' = form_set(form[2], PlainField("f"), val)
                /\ gc_ordered_vars' = new_vars
    /\ gc_edits' = gc_edits + 1
    /\ UNCHANGED <<gc_result, gc_pc>>
    /\ UNCHANGED exceptCreator

\* every other set_field: form.set(name, val)
CreatorSetField ==
    /\ gc_pc = "form"
    /\ gc_edits < MaxEdits
    /\ \E name \in SeqRange(gc_field_names) \cup {StartField("z")}, val \in Contents :
        /\ name = PlainField("f") => parsed_vars(val) = None
        /\ gc_fields' = form_set(gc_fields, name, val)
    /\ gc_edits' = gc_edits + 1
    /\ UNCHANGED <<gc_field_names, gc_ordered_vars, gc_result, gc_pc>>
    /\ UNCHANGED exceptCreator

\* try_create returns Err(errors)
CreatorTryCreateErr ==
    /\ gc_pc = "form"
    /\ \E errors \in {field_errors(gc_field_names, gc_fields, gc_ordered_vars)} :
        /\ errors # <<>> \/ supply_errors(gc_field_names, gc_ordered_vars) # <<>>
        /\ gc_result' = <<"Err", IF errors # <<>> THEN errors
                                 ELSE supply_errors(gc_field_names, gc_ordered_vars)>>
    /\ gc_pc' = "tried"
    /\ UNCHANGED <<gc_field_names, gc_fields, gc_ordered_vars, gc_edits>>
    /\ UNCHANGED exceptCreator

\* grad.into_values().collect() and x0.values().cloned().collect(): the
\* values in the order that map's keys are iterated in
values_in_order(order, fields, field(_), value(_)) ==
    [i \in 1..Len(order) |-> value(fields[field(order[i])])]

\* try_create returns Ok(problem); each of the two hash maps is iterated in
\* an order of its own
CreatorTryCreateOk ==
    /\ gc_pc = "form"
    /\ field_errors(gc_field_names, gc_fields, gc_ordered_vars) = <<>>
    /\ supply_errors(gc_field_names, gc_ordered_vars) = <<>>
    /\ \E grad_order \in IterationOrders(grad_keys(gc_field_names)),
          x0_order \in IterationOrders(x0_keys(gc_field_names)) :
        gc_result' =
            Ok([ordered_vars |-> gc_ordered_vars,
                f |-> gc_fields[PlainField("f")],
                grad |-> values_in_order(grad_order, gc_fields, DerivativeField,
                                         LAMBDA val : val),
                x0 |-> values_in_order(x0_order, gc_fields, StartField,
                                       LAMBDA val : parse_f64(val)[2]),
                eps |-> parse_f64(gc_fields[PlainField("eps")])[2],
                max_iter_count |-> parse_usize(gc_fields[PlainField("max_iter_count")])[2]])
    /\ gc_pc' = "tried"
    /\ UNCHANGED <<gc_field_names, gc_fields, gc_ordered_vars, gc_edits>>
    /\ UNCHANGED exceptCreator

NextCreator ==
    \/ CreatorSetFunction
    \/ CreatorSetField
    \/ CreatorTryCreateErr
    \/ CreatorTryCreateOk

SpecCreator == InitCreator /\ [][NextCreator]_vars

\* C28: in the problem try_create builds, for every i the i-th gradient
\* expression is the field df/d<v> and the i-th start coordinate is the
\* field <v>0 of the variable v = ordered_vars[i] the closures bind to x[i],
\* whatever the order in which the intermediate maps are iterated
C28_GradientsFollowOrderedVars ==
    gc_pc = "tried" /\ IsOk(gc_result) =>
        \A i \in 1..Len(gc_result[2].ordered_vars) :
            /\ gc_result[2].grad[i] = gc_fields[DerivativeField(gc_result[2].ordered_vars[i])]
            /\ gc_result[2].x0[i] = parse_f64(gc_fields[StartField(gc_result[2].ordered_vars[i])])[2]

\* what holds: the gradient expressions and the start coordinates are those
\* of the variables in some order each, with as many entries as variables
GradientsAreSomeOrder ==
    gc_pc = "tried" /\ IsOk(gc_result) =>
        /\ \E o \in IterationOrders(SeqRange(gc_ordered_vars)) :
            \A i \in 1..Len(gc_ordered_vars) :
                gc_result[2].grad[i] = gc_fields[DerivativeField(o[i])]
        /\ \E o \in IterationOrders(SeqRange(gc_ordered_vars)) :
            \A i \in 1..Len(gc_ordered_vars) :
                gc_result[2].x0[i] = parse_f64(gc_fields[StartField(o[i])])[2]

(***************************************************************************)
(* App::update over AppState (src/src/bin/iced_app.rs, src/src/app.rs)     *)
(***************************************************************************)
\* AppState::get_problems, in the order of ProblemName::to_index
ProblemNames ==
    <<"FredholmFirst", "AreaCalc", "WolterraSecond", "PenaltyMin", "Spline", "GradientsMin">>

\* ProblemName::to_index
to_index(name) == (CHOOSE i \in 1..Len(ProblemNames) : ProblemNames[i] = name) - 1

\* the contents of the form of a creator: the defaults, an edit that still
\* validates, an edit that does not
FormContents == {"default", "edited", "invalid"}

\* ProblemCreator::try_create of creator index cur with the contents val:
\* Ok(problem) or Err(errors)
try_create(cur, val) ==
    IF val = "invalid" THEN <<"Err", <<<<"ValidationError", cur>>>>>>
    ELSE Ok(<<"Problem", cur, val>>)

\* Problem::solve
problem_solve(problem) == <<"Solution", problem[2], problem[3]>>

\* AppState::validate: prepared_problem and validation_errors after it
validate(cur, fields) ==
    IF IsOk(try_create(cur, fields[cur + 1]))
    THEN [prepared_problem |-> Some(try_create(cur, fields[cur + 1])[2]),
          validation_errors |-> <<>>]
    ELSE [prepared_problem |-> None,
          validation_errors |-> try_create(cur, fields[cur + 1])[2]]

\* AppState::rem_solution
rem_solution(solutions, index) ==
    SubSeq(solutions, 1, index) \o SubSeq(solutions, index + 2, Len(solutions))

\* AppState::default
InitApp ==
    /\ ap_fields = [i \in 1..Len(ProblemNames) |-> "default"]
    /\ ap_cur_problem_creator = 0
    /\ ap_prepared_problem = None
    /\ ap_validation_errors = <<>>
    /\ ap_solutions = <<>>
    /\ ap_handled = 0
    /\ ap_message = "None"
    /\ ap_pc = "running"
    /\ IdleExceptApp

AppReady == ap_pc = "running" /\ ap_handled < MaxMessages

\* Message::SetField: set_field, then validate
AppSetField ==
    /\ AppReady
    /\ \E val \in FormContents :
        \E fields \in {[ap_fields EXCEPT ![ap_cur_problem_creator + 1] = val]} :
            /\ ap_fields' = fields
            /\ ap_prepared_problem' = validate(ap_cur_problem_creator, fields).prepared_problem
            /\ ap_validation_errors' = validate(ap_cur_problem_creator, fields).validation_errors
    /\ ap_message' = "SetField"
    /\ ap_handled' = ap_handled + 1
    /\ UNCHANGED <<ap_cur_problem_creator, ap_solutions, ap_pc>>
    /\ UNCHANGED exceptApp

\* Message::SelectProblem: set_problem
AppSelectProblem ==
    /\ AppReady
    /\ \E name \in SeqRange(ProblemNames) :
        ap_cur_problem_creator' = to_index(name)
    /\ ap_message' = "SelectProblem"
    /\ ap_handled' = ap_handled + 1
    /\ UNCHANGED <<ap_fields, ap_prepared_problem, ap_validation_errors, ap_solutions, ap_pc>>
    /\ UNCHANGED exceptApp

\* Message::ClearSolution from the button of solution index
AppClearSolution ==
    /\ AppReady
    /\ \E index \in 0..(Len(ap_solutions) - 1) :
        ap_solutions' = rem_solution(ap_solutions, index)
    /\ ap_message' = "ClearSolution"
    /\ ap_handled' = ap_handled + 1
    /\ UNCHANGED <<ap_fields, ap_cur_problem_creator, ap_prepared_problem, ap_validation_errors, ap_pc>>
    /\ UNCHANGED exceptApp

\* the Solve button sends Message::Solve while no validation error is shown
SolvePressed == AppReady /\ ap_validation_errors = <<>>

\* Message::Solve when validate prepares a problem: solve pushes its solution
AppSolve ==
    /\ SolvePressed
    /\ \E v \in {validate(ap_cur_problem_creator, ap_fields)} :
        /\ v.prepared_problem # None
        /\ ap_prepared_problem' = v.prepared_problem
        /\ ap_validation_errors' = v.validation_errors
        /\ ap_solutions' = Append(ap_solutions, problem_solve(v.prepared_problem[2]))
    /\ ap_message' = "Solve"
    /\ ap_handled' = ap_handled + 1
    /\ UNCHANGED <<ap_fields, ap_cur_problem_creator, ap_pc>>
    /\ UNCHANGED exceptApp

\* Message::Solve when validate prepares nothing: solve returns None and
\* update reaches todo!()
AppSolvePanics ==
    /\ SolvePressed
    /\ \E v \in {validate(ap_cur_problem_creator, ap_fields)} :
        /\ v.prepared_problem = None
        /\ ap_prepared_problem' = v.prepared_problem
        /\ ap_validation_errors' = v.validation_errors
    /\ ap_message' = "Solve"
    /\ ap_handled' = ap_handled + 1
    /\ ap_pc' = "panicked"
    /\ UNCHANGED <<ap_fields, ap_cur_problem_creator, ap_solutions>>
    /\ UNCHANGED exceptApp

NextApp ==
    \/ AppSetField
    \/ AppSelectProblem
    \/ AppClearSolution
    \/ AppSolve
    \/ AppSolvePanics

SpecApp == InitApp /\ [][NextApp]_vars

SolveHandled == ap_handled' = ap_handled + 1 /\ ap_message' = "Solve"

CurrentValid == ap_fields[ap_cur_problem_creator + 1] # "invalid"

\* C29: after any sequence of SetField, SelectProblem, Solve and
\* ClearSolution messages, handling Solve never aborts; when the fields of
\* the selected problem fail validation no solution is appended and the
\* validation errors are recorded, otherwise exactly one solution, that of
\* the selected problem with its current field values, is appended
C29_SolveNeverAborts ==
    /\ [](ap_pc # "panicked")
    /\ [][SolveHandled =>
            IF CurrentValid
            THEN ap_solutions' = Append(ap_solutions,
                     <<"Solution", ap_cur_problem_creator, ap_fields[ap_cur_problem_creator + 1]>>)
            ELSE ap_solutions' = ap_solutions /\ ap_validation_errors' # <<>>]_vars

\* what holds: everything of the claim but the abort, which happens exactly
\* when Solve meets fields that fail validation
SolveAbortsOnInvalid ==
    [][SolveHandled =>
        /\ ap_pc' = "panicked" <=> ~CurrentValid
        /\ IF CurrentValid
           THEN ap_solutions' = Append(ap_solutions,
                    <<"Solution", ap_cur_problem_creator, ap_fields[ap_cur_problem_creator + 1]>>)
           ELSE ap_solutions' = ap_solutions /\ ap_validation_errors' # <<>>]_vars

====
